---- MODULE Spec2Model ----
(***************************************************************************)
(* A model of cbui-cli: the credential store (lib/auth.js), the install    *)
(* and update commands (bin/cli.js) and the download-and-install pipeline  *)
(* (lib/downloader.js).                                                    *)
(*                                                                         *)
(* One CLI invocation is one behaviour.  The environment (credential file, *)
(* project manifest, component folders, the server's answer, I/O errors)   *)
(* is chosen nondeterministically; the program's steps are deterministic   *)
(* given those choices.                                                    *)
(***************************************************************************)
EXTENDS Integers, Sequences, FiniteSets, TLC

VARIABLES
    tokenFile,              \* ~/.cbui-cli/token.json
    lastRead,               \* what the last getToken() returned
    credLog,                \* the last mutating credential operation that ran
    cmd,                    \* the command line: [name, names, all]
    pc,                     \* position of the invocation
    exitCode,               \* "running", "0" or "1"
    token,                  \* const token of the install/update action
    packagesToProcess,      \* let packagesToProcess of the action
    manifest,               \* <cwd>/package.json
    manifestOps,            \* how package.json was accessed: "read", "write"
    requests,               \* requests POSTed to the package endpoint
    response,               \* the server's answer to the request
    cbuiDir,                \* whether <base>/crossbuildui exists
    dirs,                   \* component folders below it: folder -> content
    downloadFile,           \* whether DOWNLOADS_DIR/<filename> exists
    tarScratch,             \* whether extracted_tar_contents/<name> exists
    tgz,                    \* indices of the component archives still on disk
    scratch,                \* scratch directories below os.tmpdir()
    mode,                   \* how the download is handled
    items,                  \* the component archives to process, in order
    idx,                    \* index of the current one
    packageInfo,            \* const packageInfo of installComponentTgz
    compErr,                \* an error is pending in installComponentTgz's try
    installedPackagesInfo,  \* let installedPackagesInfo
    hasPeerDependencies,    \* let hasPeerDependencies
    out,                    \* messages written to the terminal
    faults,                 \* I/O errors that happened so far
    projectDirectory,       \* init: the project directory and what it holds
    cliTemplateName,        \* init: the --template option ("": not given)
    templateToDownload,     \* init: let templateToDownload
    prompts,                \* init: the questions put to the user, in order
    fetches,                \* init: the templates degit was run for, in order
    str,                    \* slugify: its argument, a sequence of characters
    slug,                   \* slugify(str)
    scheme,                 \* slugify(str).replace(/-/g, '')
    server,                 \* login: the callback listener
    httpLog,                \* login: what the listener did, in order
    login,                  \* login: the promise of initiateLoginFlow
    rawProjectName,         \* init: the <projectName> argument, its characters
    removed,                \* init: the paths given to fs.remove
    inv,                    \* two invocations: each one's position and paths
    disk,                   \* two invocations: the files both can reach
    now,                    \* two invocations: Date.now()
    access                  \* two invocations: the paths the last step touched

credVars == <<tokenFile, lastRead, credLog>>

cliVars == <<cmd, pc, exitCode, token, packagesToProcess>>

projVars == <<manifest, manifestOps, cbuiDir, dirs>>

netVars == <<requests, response>>

tmpVars == <<downloadFile, tarScratch, tgz, scratch>>

compVars == <<mode, items, idx, packageInfo, compErr,
              installedPackagesInfo, hasPeerDependencies>>

initVars == <<projectDirectory, cliTemplateName, templateToDownload, prompts,
              fetches, rawProjectName, removed>>

slugVars == <<str, slug, scheme>>

loginVars == <<server, httpLog, login>>

pairVars == <<inv, disk, now, access>>

\* What the credential store and the install and update commands leave alone.
restVars == <<initVars, slugVars, loginVars, pairVars>>

vars == <<tokenFile, lastRead, credLog, cmd, pc, exitCode, token,
          packagesToProcess, manifest, manifestOps, requests, response, cbuiDir, dirs,
          downloadFile, tarScratch, tgz, scratch, mode, items, idx,
          packageInfo, compErr, installedPackagesInfo, hasPeerDependencies,
          out, faults,
          projectDirectory, cliTemplateName, templateToDownload, prompts,
          fetches, str, slug, scheme, server, httpLog, login,
          rawProjectName, removed, inv, disk, now, access>>

-----------------------------------------------------------------------------
(* Bounds *)

\* I/O errors injected in one behaviour
MaxFaults == 1

\* entries of a multi-component container
MaxBatch == 3

\* credential operations in one behaviour of the credential store
MaxOps == 4

\* characters of a project name
MaxLen == 3

\* requests the login listener receives
MaxRequests == 3

\* milliseconds that pass while two invocations run
MaxClock == 1

-----------------------------------------------------------------------------
(* Values *)

\* JavaScript truthiness of a string: only the empty string is falsy.  A
\* missing field (undefined) is written "" as well, which is falsy too.
Truthy(s) == s # ""

\* An object as a map from keys to strings.
EmptyMap == <<>>

Keys(m) == DOMAIN m

\* m[k] of JavaScript: undefined (written "") when the key is absent
Get(m, k) == IF k \in DOMAIN m THEN m[k] ELSE ""

\* m[k] = v
Put(m, k, v) == [x \in (DOMAIN m) \cup {k} |-> IF x = k THEN v ELSE m[x]]

\* { ...a, ...b }: the keys of both, b's value where both have the key
Spread(a, b) ==
    [x \in (DOMAIN a) \cup (DOMAIN b) |-> IF x \in DOMAIN b THEN b[x] ELSE a[x]]

Tokens == {"tokA", "tokB"}

\* Component names, as their '/'-separated segments.
Button == <<"@ns", "button">>

Card == <<"@ns", "card">>

AltButton == <<"@alt", "button">>

NoName == <<>>

\* I/O operations either succeed or, while the budget lasts, fail.
FaultChoice == IF faults < MaxFaults THEN {FALSE, TRUE} ELSE {FALSE}

\* One of the operations named in S fails, or none does.
FaultsAt(S) == {"ok"} \cup (IF faults < MaxFaults THEN S ELSE {})

CountAt(f) == IF f = "ok" THEN faults ELSE faults + 1

Count(fail) == IF fail THEN faults + 1 ELSE faults

-----------------------------------------------------------------------------
(* Credential store: lib/auth.js *)

AbsentFile == [state |-> "absent", token |-> ""]

GarbageFile == [state |-> "garbage", token |-> ""]

\* TokenJson writing an object without the token.
TokenJsonBare(t) == [state |-> "json", token |-> ""]

\* fs.writeJson(TOKEN_FILE, { token })
TokenJson(t) == [state |-> "json", token |-> t]

\* GetToken returning the file's text where it is no JSON.
GetTokenRaw(f) ==
    IF f.state = "absent" THEN ""
    ELSE IF f.state = "garbage" THEN "<raw text>"
    ELSE IF Truthy(f.token) THEN f.token ELSE ""

\* getToken(): the token, or "" for null
GetToken(f) ==
    IF f.state = "absent" THEN ""              \* pathExists is false
    ELSE IF f.state = "garbage" THEN ""        \* readJson throws: catch, null
    ELSE IF Truthy(f.token) THEN f.token ELSE ""   \* token || null

\* isAuthenticated(): !!token
IsAuthenticated(f) == Truthy(GetToken(f))

Unread == "<unread>"

\* saveToken(token); its only caller passes a truthy token (auth.js:48)
SaveToken(t) ==
    /\ pc = "cred"
    /\ credLog.n < MaxOps
    /\ \E fail \in FaultChoice :
        /\ faults' = Count(fail)
        /\ IF fail
           THEN \* ensureDir or writeJson threw: process.exit(1); the file is
                \* as it was or was truncated by the failed write
                /\ \E f \in {tokenFile, GarbageFile} : tokenFile' = f
                /\ credLog' = [op |-> "saveFailed", token |-> t, n |-> credLog.n + 1]
                /\ pc' = "exited"
                /\ exitCode' = "1"
           ELSE /\ tokenFile' = TokenJson(t)
                /\ credLog' = [op |-> "save", token |-> t, n |-> credLog.n + 1]
                /\ UNCHANGED <<pc, exitCode>>
    /\ lastRead' = Unread
    /\ UNCHANGED <<cmd, token, packagesToProcess, projVars, netVars, tmpVars,
                   compVars, out, restVars>>

\* getToken() as called by status, install, update and isAuthenticated
ReadToken ==
    /\ pc = "cred"
    /\ credLog.n < MaxOps
    /\ lastRead' = GetToken(tokenFile)
    /\ credLog' = [credLog EXCEPT !.n = @ + 1]
    /\ UNCHANGED <<tokenFile, cliVars, projVars, netVars, tmpVars, compVars,
                   out, faults, restVars>>

\* Removed leaving a file that is no JSON in place.
RemovedIfParsable(f) == IF f.state = "garbage" THEN f ELSE AbsentFile

\* fs.remove(TOKEN_FILE): the file is gone, whatever it was; removing an
\* absent file is no error
Removed(f) == AbsentFile

\* logoutUser()
LogoutUser ==
    /\ pc = "cred"
    /\ credLog.n < MaxOps
    /\ \E fail \in FaultChoice :
        /\ faults' = Count(fail)
        /\ IF fail
           THEN \* fs.remove threw: reported, the file stays
                /\ credLog' = [op |-> "clearFailed", token |-> "", n |-> credLog.n + 1]
                /\ UNCHANGED tokenFile
           ELSE /\ tokenFile' = Removed(tokenFile)
                /\ credLog' = [op |-> "clear", token |-> "", n |-> credLog.n + 1]
    /\ lastRead' = Unread
    /\ UNCHANGED <<cliVars, projVars, netVars, tmpVars, compVars, out, restVars>>

TokenFiles ==
    {AbsentFile, GarbageFile, TokenJson("")} \cup {TokenJson(t) : t \in Tokens}

-----------------------------------------------------------------------------
(* Idle values of the parts a specification does not use *)

NoCmd == [name |-> "none", names |-> <<>>, all |-> FALSE]

NoManifest == [exists |-> FALSE, valid |-> FALSE, dependencies |-> EmptyMap,
               peerDependencies |-> EmptyMap, crossbuildui |-> EmptyMap]

NoResponse == [status |-> 0, contentType |-> "", ext |-> "",
               container |-> FALSE, entries |-> <<>>]

NoInfo == [name |-> NoName, version |-> "", dependencies |-> EmptyMap,
           peerDependencies |-> EmptyMap]

InitIdle ==
    /\ cmd = NoCmd
    /\ token = ""
    /\ packagesToProcess = <<>>
    /\ manifest = NoManifest
    /\ manifestOps = {}
    /\ requests = <<>>
    /\ response = NoResponse
    /\ cbuiDir = FALSE
    /\ dirs = EmptyMap
    /\ downloadFile = FALSE
    /\ tarScratch = FALSE
    /\ tgz = {}
    /\ scratch = {}
    /\ mode = "none"
    /\ items = <<>>
    /\ idx = 0
    /\ packageInfo = NoInfo
    /\ compErr = FALSE
    /\ installedPackagesInfo = <<>>
    /\ hasPeerDependencies = FALSE
    /\ out = {}
    /\ faults = 0

\* No second invocation runs.
InitAlone ==
    /\ inv = <<>>
    /\ disk = <<>>
    /\ now = 0
    /\ access = {}

\* The parts that only init, slugify and login use, at rest.
InitRest ==
    /\ rawProjectName = <<>>
    /\ removed = {}
    /\ InitAlone
    /\ projectDirectory = [exists |-> FALSE, content |-> ""]
    /\ cliTemplateName = ""
    /\ templateToDownload = ""
    /\ prompts = <<>>
    /\ fetches = <<>>
    /\ str = <<>>
    /\ slug = <<>>
    /\ scheme = <<>>
    /\ server = "none"
    /\ httpLog = <<>>
    /\ login = "none"

InitCred ==
    /\ tokenFile \in TokenFiles
    /\ lastRead = Unread
    /\ credLog = [op |-> "none", token |-> "", n |-> 0]
    /\ pc = "cred"
    /\ exitCode = "running"
    /\ InitIdle
    /\ InitRest

NextCred ==
    \/ \E t \in Tokens : SaveToken(t)
    \/ ReadToken
    \/ LogoutUser

SpecCred == InitCred /\ [][NextCred]_vars

-----------------------------------------------------------------------------
(* The environment of an install or update invocation *)

\* All the orders in which the elements of S can be listed.
SeqsOf(S) ==
    {q \in [1..Cardinality(S) -> S] :
        \A i, j \in 1..Cardinality(S) : i # j => q[i] # q[j]}

\* The files a package download can hold.  file is the entry's name in its
\* container, rank its place in the order of the names, tgz whether the name
\* ends in .tgz or .tar.gz; manifest is
\* whether package/package.json (or package.json) is in the archive; name,
\* version, dependencies and peerDependencies are that manifest's fields ("",
\* NoName: the field is missing); dist is the content of package/dist ("":
\* the archive has no such directory).
ButtonTgz ==
    [file |-> "a-button.tgz", rank |-> 1, tgz |-> TRUE, manifest |-> TRUE, name |-> Button,
     version |-> "1.0.0", dependencies |-> EmptyMap,
     peerDependencies |-> EmptyMap, dist |-> "button 1.0.0"]

CardTgz ==
    [file |-> "c-card.tgz", rank |-> 3, tgz |-> TRUE, manifest |-> TRUE, name |-> Card,
     version |-> "2.0.0", dependencies |-> [x \in {"react"} |-> "2.0.0"],
     peerDependencies |-> [x \in {"rn"} |-> "2.0.0"], dist |-> "card 2.0.0"]

AltButtonTgz ==
    [file |-> "e-altbutton.tgz", rank |-> 5, tgz |-> TRUE, manifest |-> TRUE,
     name |-> AltButton, version |-> "2.0.0", dependencies |-> EmptyMap,
     peerDependencies |-> EmptyMap, dist |-> ""]

NoManifestTgz ==
    [file |-> "b-nomanifest.tgz", rank |-> 2, tgz |-> TRUE, manifest |-> FALSE,
     name |-> NoName, version |-> "", dependencies |-> EmptyMap,
     peerDependencies |-> EmptyMap, dist |-> "orphan"]

NoNameTgz ==
    [file |-> "d-noname.tgz", rank |-> 4, tgz |-> TRUE, manifest |-> TRUE, name |-> NoName,
     version |-> "1.0.0", dependencies |-> EmptyMap,
     peerDependencies |-> EmptyMap, dist |-> "nameless"]

NoVersionTgz ==
    [file |-> "f-noversion.tgz", rank |-> 6, tgz |-> TRUE, manifest |-> TRUE, name |-> Card,
     version |-> "", dependencies |-> EmptyMap,
     peerDependencies |-> EmptyMap, dist |-> "card ?"]

NotesTxt ==
    [file |-> "notes.txt", rank |-> 7, tgz |-> FALSE, manifest |-> FALSE, name |-> NoName,
     version |-> "", dependencies |-> EmptyMap,
     peerDependencies |-> EmptyMap, dist |-> ""]

\* What a component archive extracted as a container leaves: one directory.
PackageDir ==
    [file |-> "package", rank |-> 8, tgz |-> FALSE, manifest |-> FALSE, name |-> NoName,
     version |-> "", dependencies |-> EmptyMap,
     peerDependencies |-> EmptyMap, dist |-> ""]

ComponentArchives ==
    {ButtonTgz, CardTgz, AltButtonTgz, NoManifestTgz, NoNameTgz, NoVersionTgz}

Entries == ComponentArchives \cup {NotesTxt}

\* fs.readdir lists a directory's entries in the order of their names.
Listing(S) ==
    CHOOSE q \in SeqsOf(S) :
        \A i, j \in 1..Cardinality(S) : i < j => q[i].rank < q[j].rank

\* The content of a container: distinct files.
Containers ==
    {Listing(S) : S \in {T \in SUBSET Entries : Cardinality(T) <= MaxBatch}}

Statuses == {200, 401, 403, 404, 429, 500}

\* content-type headers; "" is a missing header (headers.get gives null)
ContentTypes ==
    {"", "application/gzip", "application/x-tar", "application/octet-stream"}

\* The suffix of the Content-Disposition file name: "" stands for a name
\* with no known suffix, as the default 'downloaded_packages' has.
Exts == {"", ".tgz", ".tar"}

Response(st, ct, e, c, q) ==
    [status |-> st, contentType |-> ct, ext |-> e, container |-> c,
     entries |-> q]

ErrorResponses ==
    {Response(st, "", "", FALSE, <<>>) : st \in Statuses \ {200}}

\* The server sends one component archive or a container of them, and
\* declares it as it likes.
OkResponses ==
    {Response(200, "application/gzip", e, FALSE, <<a>>) :
        e \in {"", ".tgz"}, a \in ComponentArchives}
    \cup
    {Response(200, "application/x-tar", ".tar", TRUE, q) : q \in Containers}
    \cup
    {Response(200, h[1], h[2], FALSE, <<a>>) :
        h \in {<<"application/x-tar", ".tgz">>,
               <<"application/octet-stream", ".tgz">>,
               <<"application/octet-stream", "">>,
               <<"", ".tgz">>, <<"", "">>},
        a \in {ButtonTgz, CardTgz}}
    \cup
    {Response(200, h[1], h[2], TRUE, Listing({ButtonTgz, CardTgz})) :
        h \in {<<"application/x-tar", ".tgz">>,
               <<"application/gzip", ".tar">>,
               <<"application/octet-stream", ".tar">>}}
    \cup
    {Response(200, "application/x-tar", "", FALSE, <<CardTgz>>)}

Responses == ErrorResponses \cup OkResponses

\* package.json of the project.  A missing section and an empty one are the
\* same map: the code reads each through `section || {}`.
ManifestFile(deps, peer, tracked) ==
    [exists |-> TRUE, valid |-> TRUE, dependencies |-> deps,
     peerDependencies |-> peer, crossbuildui |-> tracked]

MalformedManifest ==
    [exists |-> TRUE, valid |-> FALSE, dependencies |-> EmptyMap,
     peerDependencies |-> EmptyMap, crossbuildui |-> EmptyMap]

Tracked == [x \in {Button, Card} |-> IF x = Button THEN "0.9.0" ELSE "1.0.0"]

Manifests ==
    {NoManifest, MalformedManifest}
    \cup
    {ManifestFile(d[1], d[2], t) :
        d \in {<<EmptyMap, EmptyMap>>,
               <<[x \in {"react"} |-> "1.0.0"], [x \in {"rn"} |-> "1.0.0"]>>,
               <<[x \in {"react"} |-> ""], EmptyMap>>},
        t \in {EmptyMap, Tracked}}

Commands ==
    {[name |-> "install", names |-> ns, all |-> FALSE] :
        ns \in {<<>>, <<Button>>}}
    \cup
    {[name |-> "update", names |-> ns, all |-> a] :
        ns \in {<<>>, <<Button>>}, a \in BOOLEAN}

InitInstall ==
    /\ tokenFile \in {AbsentFile, GarbageFile, TokenJson(""), TokenJson("tokA")}
    /\ lastRead = Unread
    /\ credLog = [op |-> "none", token |-> "", n |-> 0]
    /\ cmd \in Commands
    /\ pc = "start"
    /\ exitCode = "running"
    /\ token = ""
    /\ packagesToProcess = <<>>
    /\ manifest \in Manifests
    /\ manifestOps = {}
    /\ requests = <<>>
    /\ response = NoResponse
    /\ dirs \in {EmptyMap, [x \in {"button"} |-> "old files"]}
    /\ cbuiDir = (dirs # EmptyMap)
    /\ downloadFile = FALSE
    /\ tarScratch = FALSE
    /\ tgz = {}
    /\ scratch = {}
    /\ mode = "none"
    /\ items = <<>>
    /\ idx = 0
    /\ packageInfo = NoInfo
    /\ compErr = FALSE
    /\ installedPackagesInfo = <<>>
    /\ hasPeerDependencies = FALSE
    /\ out = {}
    /\ faults = 0
    /\ InitRest

-----------------------------------------------------------------------------
(* The install and update commands: bin/cli.js *)

\* process.exit(code), after printing msgs
Exit(code, msgs) ==
    /\ pc' = "exited"
    /\ exitCode' = code
    /\ out' = out \cup msgs

\* fs.readJson(package.json): whether it returns
Readable(m) == m.exists /\ m.valid

\* The action up to its second token check (cli.js:74-83, 123-131).
CheckAuth ==
    /\ pc = "start"
    /\ IF ~IsAuthenticated(tokenFile)
       THEN /\ Exit("1", {"authentication required"})
            /\ UNCHANGED token
       ELSE IF ~Truthy(GetToken(tokenFile))
       THEN /\ Exit("1", {"could not retrieve token"})
            /\ UNCHANGED token
       ELSE /\ token' = GetToken(tokenFile)
            /\ pc' = "resolve"
            /\ UNCHANGED <<exitCode, out>>
    /\ UNCHANGED <<credVars, cmd, packagesToProcess, projVars, netVars, tmpVars,
                   compVars, faults, restVars>>

\* TrackedNames reading the section of the ordinary dependencies.
TrackedNamesFromDependencies(m) == Keys(m.dependencies)

\* Object.keys(cbuiDeps) of cli.js:96-99 and 149-151, as a set
TrackedNames(m) == Keys(m.crossbuildui)

\* The names read from package.json (cli.js:89-108, 142-160): a fault is a
\* readJson that throws on a well-formed file.
FromManifest ==
    \E f \in FaultsAt({"readJson"}) :
        /\ faults' = CountAt(f)
        /\ manifestOps' = IF manifest.exists THEN manifestOps \cup {"read"}
                          ELSE manifestOps
        /\ UNCHANGED <<manifest, cbuiDir, dirs>>
        /\ IF ~manifest.exists
           THEN /\ Exit("0", {"no package.json"})
                /\ UNCHANGED packagesToProcess
           ELSE IF ~manifest.valid \/ f = "readJson"
           THEN /\ Exit("1", {"error reading package.json"})
                /\ UNCHANGED packagesToProcess
           ELSE IF TrackedNames(manifest) # {}
           THEN /\ \E q \in SeqsOf(TrackedNames(manifest)) :
                    packagesToProcess' = q
                /\ pc' = "request"
                /\ UNCHANGED <<exitCode, out>>
           ELSE /\ Exit("0", {"no crossbuildui dependencies"})
                /\ UNCHANGED packagesToProcess

\* The rest of the install action, up to the call of downloadPackage
\* (cli.js:85-115).
ResolveInstall ==
    /\ pc = "resolve"
    /\ cmd.name = "install"
    /\ IF Len(cmd.names) = 0
       THEN FromManifest
       ELSE /\ packagesToProcess' = cmd.names
            /\ pc' = "request"
            /\ UNCHANGED <<exitCode, out, faults, projVars>>
    /\ UNCHANGED <<credVars, cmd, token, netVars, tmpVars, compVars, restVars>>

\* The rest of the update action (cli.js:133-172).  Command.help() ends the
\* process itself, with a status that the command library decides.
ResolveUpdate ==
    /\ pc = "resolve"
    /\ cmd.name = "update"
    /\ IF cmd.all
       THEN IF Len(cmd.names) > 0
            THEN /\ Exit("1", {"--all with names"})
                 /\ UNCHANGED <<packagesToProcess, faults, projVars>>
            ELSE FromManifest
       ELSE IF Len(cmd.names) = 0
       THEN /\ \E code \in {"0", "1"} : Exit(code, {"specify names"})
            /\ UNCHANGED <<packagesToProcess, faults, projVars>>
       ELSE /\ packagesToProcess' = cmd.names
            /\ pc' = "request"
            /\ UNCHANGED <<exitCode, out, faults, projVars>>
    /\ UNCHANGED <<credVars, cmd, token, netVars, tmpVars, compVars, restVars>>

-----------------------------------------------------------------------------
(* downloadPackage: lib/downloader.js *)

\* Ok taking only the 5xx statuses for failures.
OkBelow500(status) == status >= 200 /\ status <= 499

\* response.ok
Ok(status) == status >= 200 /\ status <= 299

\* contentType.includes(s), on the content types of ContentTypes
Includes(ct, s) == ct = s

\* filename.endsWith(suffix), on the suffixes of Exts
EndsWith(ext, suffix) == ext = suffix

\* Handling deciding by the content type alone.
HandlingByTypeOnly(ct, ext) ==
    IF Includes(ct, "application/gzip") THEN "single"
    ELSE IF Includes(ct, "application/x-tar") THEN "tar"
    ELSE "none"

\* Handling without the tests that a content type was declared.
HandlingNoNullGuard(ct, ext) ==
    IF \/ Includes(ct, "application/gzip")
       \/ EndsWith(ext, ".tgz")
       \/ EndsWith(ext, ".tar.gz")
    THEN "single"
    ELSE IF Includes(ct, "application/x-tar")
    THEN "tar"
    ELSE "none"

\* The branch taken at downloader.js:230-278.
Handling(ct, ext) ==
    IF Truthy(ct) /\ (\/ Includes(ct, "application/gzip")
                      \/ EndsWith(ext, ".tgz")
                      \/ EndsWith(ext, ".tar.gz"))
    THEN "single"
    ELSE IF Truthy(ct) /\ Includes(ct, "application/x-tar")
    THEN "tar"
    ELSE "none"

\* The messages of a failed request (downloader.js:39-54).
StatusMessages(st) ==
    {"failed to download packages"}
    \cup (IF st = 401 \/ st = 403 THEN {"authentication failed"}
          ELSE IF st = 404 THEN {"not found"}
          ELSE IF st = 429 THEN {"rate limit exceeded"}
          ELSE {})

\* An error thrown in downloadPackage's outer try (downloader.js:323-326).
Fatal == Exit("1", {"error during the download process"})

\* downloader.js:23-56: the request and the check of its status.
Request ==
    /\ pc = "request"
    /\ \E f \in FaultsAt({"ensureDir", "fetch"}) :
        /\ faults' = CountAt(f)
        /\ IF f = "ensureDir"
           THEN Fatal /\ UNCHANGED netVars
           ELSE /\ requests' = Append(requests,
                        [components |-> packagesToProcess, bearer |-> token])
                /\ IF f = "fetch"
                   THEN Fatal /\ UNCHANGED response
                   ELSE \E r \in Responses :
                        /\ response' = r
                        /\ IF ~Ok(r.status)
                           THEN Exit("1", StatusMessages(r.status))
                           ELSE /\ pc' = "download"
                                /\ UNCHANGED <<exitCode, out>>
    /\ UNCHANGED <<credVars, cmd, token, packagesToProcess, projVars, tmpVars,
                   compVars, restVars>>

\* downloader.js:58-87: the body is written to the downloads directory and
\* the components directory is made.
Download ==
    /\ pc = "download"
    /\ \E f \in FaultsAt({"stream", "ensureDir"}) :
        /\ faults' = CountAt(f)
        /\ IF f = "stream"
           THEN /\ Fatal
                /\ \E b \in BOOLEAN : downloadFile' = b
                /\ UNCHANGED cbuiDir
           ELSE IF f = "ensureDir"
           THEN /\ Fatal
                /\ downloadFile' = TRUE
                /\ UNCHANGED cbuiDir
           ELSE /\ downloadFile' = TRUE
                /\ cbuiDir' = TRUE
                /\ pc' = "dispatch"
                /\ UNCHANGED <<exitCode, out>>
    /\ UNCHANGED <<credVars, cmd, token, packagesToProcess, manifest,
                   manifestOps, dirs, netVars, tarScratch, tgz, scratch,
                   compVars, restVars>>

\* The downloaded file read as one component archive: a container has no
\* package.json of its own.
DownloadAsArchive ==
    IF response.container THEN NoManifestTgz ELSE response.entries[1]

\* The downloaded file extracted as a container.
ItemsInTar ==
    IF response.container THEN response.entries ELSE <<PackageDir>>

\* downloader.js:228-252, 276-279: the branch on the content type, and for a
\* container its extraction.
Dispatch ==
    /\ pc = "dispatch"
    /\ LET h == Handling(response.contentType, response.ext) IN
        /\ mode' = h
        /\ IF h = "single"
           THEN /\ items' = <<DownloadAsArchive>>
                /\ idx' = 1
                /\ tgz' = {1}
                /\ pc' = "compInfo"
                /\ UNCHANGED <<exitCode, out, faults, tarScratch>>
           ELSE IF h = "tar"
           THEN \E f \in FaultsAt({"scratchDir", "extract", "readdir"}) :
                /\ faults' = CountAt(f)
                /\ IF f = "scratchDir"
                   THEN /\ Fatal
                        /\ \E b \in BOOLEAN : tarScratch' = b
                        /\ UNCHANGED <<items, idx, tgz>>
                   ELSE IF f # "ok"
                   THEN \* catch at 271: the scratch directory is removed
                        /\ Fatal
                        /\ tarScratch' = FALSE
                        /\ UNCHANGED <<items, idx, tgz>>
                   ELSE /\ tarScratch' = TRUE
                        /\ items' = ItemsInTar
                        /\ idx' = 1
                        /\ tgz' = {i \in 1..Len(ItemsInTar) : ItemsInTar[i].tgz}
                        /\ pc' = "loop"
                        /\ UNCHANGED <<exitCode, out>>
           ELSE /\ out' = out \cup {"unhandled content type"}
                /\ pc' = "update"
                /\ UNCHANGED <<exitCode, faults, tarScratch, items, idx, tgz>>
    /\ UNCHANGED <<credVars, cmd, token, packagesToProcess, projVars, netVars,
                   downloadFile, scratch, packageInfo, compErr,
                   installedPackagesInfo, hasPeerDependencies, restVars>>

\* downloader.js:254-262: the loop over the container's entries.
Loop ==
    /\ pc = "loop"
    /\ IF idx > Len(items)
       THEN pc' = "tarCleanup" /\ UNCHANGED idx
       ELSE IF items[idx].tgz
       THEN pc' = "compInfo" /\ UNCHANGED idx
       ELSE pc' = "loop" /\ idx' = idx + 1
    /\ UNCHANGED <<credVars, cmd, exitCode, token, packagesToProcess, projVars,
                   netVars, tmpVars, mode, items, packageInfo, compErr,
                   installedPackagesInfo, hasPeerDependencies, out, faults,
                   restVars>>

-----------------------------------------------------------------------------
(* installComponentTgz: lib/downloader.js:142-226 *)

\* getPackageInfoFromTgz returning null (downloader.js:125, 130)
NullInfo ==
    [found |-> FALSE, name |-> NoName, version |-> "",
     dependencies |-> EmptyMap, peerDependencies |-> EmptyMap]

\* getPackageInfoFromTgz's result (downloader.js:107-126); found is FALSE
\* for null
InfoOf(a) ==
    IF a.manifest
    THEN [found |-> TRUE, name |-> a.name, version |-> a.version,
          dependencies |-> a.dependencies,
          peerDependencies |-> a.peerDependencies]
    ELSE NullInfo

\* Skipped without its test of the version.
SkippedNoVersion(info) == ~info.found \/ info.name = NoName

\* !packageInfo || !packageInfo.name || !packageInfo.version
Skipped(info) == ~info.found \/ info.name = NoName \/ ~Truthy(info.version)

\* packageInfo.name.split('/').pop()
FolderName(name) == name[Len(name)]

\* fs.remove(installPath)
RemoveDir(d, folder) == [x \in (DOMAIN d) \ {folder} |-> d[x]]

\* An error leaves installComponentTgz: in a container's loop the catch at
\* 271 removes the container's scratch directory and rethrows; the catches
\* at 319 and 323 end the process.
Abort ==
    /\ Fatal
    /\ tarScratch' = (IF mode = "tar" THEN FALSE ELSE tarScratch)

\* Return with the loop going on two entries further.
ReturnAhead ==
    IF mode = "tar"
    THEN pc' = "loop" /\ idx' = idx + 2
    ELSE pc' = "update" /\ UNCHANGED idx

\* installComponentTgz returns: to the loop (257-258) or to 234.
Return ==
    IF mode = "tar"
    THEN pc' = "loop" /\ idx' = idx + 1
    ELSE pc' = "update" /\ UNCHANGED idx

\* fs.remove(tgzPath); the archive of a single download is the download
RemoveTgz ==
    /\ tgz' = tgz \ {idx}
    /\ downloadFile' = (IF mode = "single" THEN FALSE ELSE downloadFile)

\* Step a, downloader.js:143-149 with getPackageInfoFromTgz (95-134).
CompInfo ==
    /\ pc = "compInfo"
    /\ \E f \in FaultsAt({"scratchDir", "extract"}) :
        /\ faults' = CountAt(f)
        /\ IF f = "scratchDir"
           THEN \* ensureDir at 98 is outside the try
                /\ Abort
                /\ UNCHANGED <<idx, tgz, downloadFile, packageInfo>>
           ELSE LET info == IF f = "extract" THEN NullInfo
                            ELSE InfoOf(items[idx]) IN
                IF Skipped(info)
                THEN /\ out' = out \cup {"skipping"}
                     /\ RemoveTgz
                     /\ Return
                     /\ UNCHANGED <<exitCode, tarScratch, packageInfo>>
                ELSE /\ packageInfo' = [name |-> info.name,
                                        version |-> info.version,
                                        dependencies |-> info.dependencies,
                                        peerDependencies |-> info.peerDependencies]
                     /\ pc' = "compDest"
                     /\ UNCHANGED <<exitCode, out, idx, tgz, downloadFile,
                                    tarScratch>>
    /\ UNCHANGED <<credVars, cmd, token, packagesToProcess, projVars, netVars,
                   scratch, mode, items, compErr, installedPackagesInfo,
                   hasPeerDependencies, restVars>>

\* Step b, downloader.js:151-161: the destination folder is made and
\* emptied, and the scratch directory of the extraction is made.
CompDest ==
    /\ pc = "compDest"
    /\ LET folder == FolderName(packageInfo.name) IN
       \E f \in FaultsAt({"ensureDir", "emptyDir", "scratchDir"}) :
        /\ faults' = CountAt(f)
        /\ IF f = "ensureDir"
           THEN Abort /\ UNCHANGED <<dirs, scratch>>
           ELSE IF f = "emptyDir"
           THEN /\ Abort
                /\ dirs' = IF folder \in DOMAIN dirs THEN dirs
                           ELSE Put(dirs, folder, "")
                /\ UNCHANGED scratch
           ELSE IF f = "scratchDir"
           THEN /\ Abort
                /\ dirs' = Put(dirs, folder, "")
                /\ UNCHANGED scratch
           ELSE /\ dirs' = Put(dirs, folder, "")
                /\ scratch' = scratch \cup {"extract"}
                /\ pc' = "compExtract"
                /\ UNCHANGED <<exitCode, out, tarScratch>>
    /\ UNCHANGED <<credVars, cmd, token, packagesToProcess, manifest,
                   manifestOps, cbuiDir, netVars, downloadFile, tgz, compVars,
                   restVars>>

\* HasDist taking every archive to hold a payload directory.
HasDistAlways(a) == TRUE

\* pathExists(distPathInArchive) && stat(...).isDirectory(), downloader.js:171
HasDist(a) == a.dist # ""

\* Step c, downloader.js:163-178: the archive is extracted and its
\* package/dist copied to the destination folder.
CompExtract ==
    /\ pc = "compExtract"
    /\ LET folder == FolderName(packageInfo.name)
           a == items[idx] IN
       \E f \in FaultsAt({"extract", "copy"}) :
        /\ faults' = CountAt(f)
        /\ IF f # "ok"
           THEN /\ compErr' = TRUE
                /\ pc' = "compCleanup"
                /\ UNCHANGED <<dirs, out>>
           ELSE IF HasDist(a)
           THEN /\ dirs' = Put(dirs, folder, a.dist)
                /\ out' = out \cup {"installed"}
                /\ pc' = "compMerge"
                /\ UNCHANGED compErr
           ELSE /\ out' = out \cup {"dist not found"}
                /\ pc' = "compMerge"
                /\ UNCHANGED <<dirs, compErr>>
    /\ UNCHANGED <<credVars, cmd, exitCode, token, packagesToProcess, manifest,
                   manifestOps, cbuiDir, netVars, tmpVars, mode, items, idx,
                   packageInfo, installedPackagesInfo, hasPeerDependencies,
                   restVars>>

\* dependenciesToConsider (downloader.js:197-200)
DependenciesToConsider(info) == Spread(info.dependencies, info.peerDependencies)

\* The names the loop at 202-210 adds to projectPkg.dependencies.
MissingDeps(pkg, info) ==
    {d \in DOMAIN DependenciesToConsider(info) :
        /\ ~Truthy(Get(pkg.dependencies, d))
        /\ ~Truthy(Get(pkg.peerDependencies, d))}

\* projectPkg after the loop at 202-210
MergeDependencies(pkg, info) ==
    [pkg EXCEPT !.dependencies =
        [d \in (DOMAIN pkg.dependencies) \cup MissingDeps(pkg, info) |->
            IF d \in MissingDeps(pkg, info)
            THEN DependenciesToConsider(info)[d]
            ELSE pkg.dependencies[d]]]

\* Declares counting no declared dependency.
DeclaresIgnored(info) == FALSE

\* downloader.js:180-185: the component has peer dependencies or
\* dependencies
Declares(info) ==
    \/ Keys(info.peerDependencies) # {}
    \/ Keys(info.dependencies) # {}

\* Steps d and e, downloader.js:180-217.
CompMerge ==
    /\ pc = "compMerge"
    /\ installedPackagesInfo' = Append(installedPackagesInfo, packageInfo)
    /\ pc' = "compCleanup"
    /\ LET declared == Declares(packageInfo) IN
       IF ~manifest.exists
       THEN /\ hasPeerDependencies' = (hasPeerDependencies \/ declared)
            /\ UNCHANGED <<manifest, manifestOps, compErr, faults>>
       ELSE \E f \in FaultsAt({"readJson", "writeJson"}) :
            /\ faults' = CountAt(f)
            /\ IF ~manifest.valid \/ f = "readJson"
               THEN /\ compErr' = TRUE
                    /\ hasPeerDependencies' = (hasPeerDependencies \/ declared)
                    /\ manifestOps' = manifestOps \cup {"read"}
                    /\ UNCHANGED manifest
               ELSE IF MissingDeps(manifest, packageInfo) = {}
               THEN /\ hasPeerDependencies' = (hasPeerDependencies \/ declared)
                    /\ f = "ok"
                    /\ manifestOps' = manifestOps \cup {"read"}
                    /\ UNCHANGED <<manifest, compErr>>
               ELSE IF f = "writeJson"
               THEN /\ compErr' = TRUE
                    /\ hasPeerDependencies' = (hasPeerDependencies \/ declared)
                    /\ manifestOps' = manifestOps \cup {"read", "write"}
                    /\ \E m \in {manifest, MalformedManifest} : manifest' = m
               ELSE /\ manifest' = MergeDependencies(manifest, packageInfo)
                    /\ manifestOps' = manifestOps \cup {"read", "write"}
                    /\ hasPeerDependencies' = TRUE
                    /\ UNCHANGED compErr
    /\ UNCHANGED <<credVars, cmd, exitCode, token, packagesToProcess, cbuiDir,
                   dirs, netVars, tmpVars, mode, items, idx, packageInfo, out,
                   restVars>>

\* Step f, downloader.js:219-225: the catch and the finally.
CompCleanup ==
    /\ pc = "compCleanup"
    /\ IF compErr
       THEN /\ out' = out \cup {"failed to install"}
            /\ dirs' = RemoveDir(dirs, FolderName(packageInfo.name))
       ELSE UNCHANGED <<out, dirs>>
    /\ compErr' = FALSE
    /\ scratch' = scratch \ {"extract"}
    /\ RemoveTgz
    /\ Return
    /\ UNCHANGED <<credVars, cmd, exitCode, token, packagesToProcess, manifest,
                   manifestOps, cbuiDir, netVars, tarScratch, mode, items,
                   packageInfo, installedPackagesInfo, hasPeerDependencies,
                   faults, restVars>>

-----------------------------------------------------------------------------
(* The end of downloadPackage: lib/downloader.js:263-322 *)

\* downloader.js:263-275: the container and its scratch directory are
\* removed; an error of either removal is thrown.
TarCleanup ==
    /\ pc = "tarCleanup"
    /\ \E f \in FaultsAt({"removeScratch", "removeDownload"}) :
        /\ faults' = CountAt(f)
        /\ IF f = "removeScratch"
           THEN Fatal /\ UNCHANGED <<tarScratch, downloadFile>>
           ELSE IF f = "removeDownload"
           THEN Fatal /\ tarScratch' = FALSE /\ UNCHANGED downloadFile
           ELSE /\ tarScratch' = FALSE
                /\ downloadFile' = FALSE
                /\ pc' = "update"
                /\ UNCHANGED <<exitCode, out>>
    /\ UNCHANGED <<credVars, cmd, token, packagesToProcess, projVars, netVars,
                   tgz, scratch, compVars, restVars>>

\* RecordAll recording the first component only.
RecordHead(tracked, infos) ==
    IF infos = <<>> THEN tracked
    ELSE Put(tracked, Head(infos).name, Head(infos).version)

RECURSIVE RecordAll(_, _)

\* installedPackagesInfo.forEach(...) at 295-300, from the i-th entry on
RecordAll(tracked, infos) ==
    IF infos = <<>> THEN tracked
    ELSE LET pkg == Head(infos) IN
         RecordAll(IF pkg.name # NoName /\ Truthy(pkg.version)
                   THEN Put(tracked, pkg.name, pkg.version)
                   ELSE tracked,
                   Tail(infos))

\* RecordComponents building the section from the batch alone.
RecordComponentsReplace(pkg, infos) ==
    [pkg EXCEPT !.crossbuildui = RecordAll(EmptyMap, infos)]

\* projectPackageJson as written at 301
RecordComponents(pkg, infos) ==
    [pkg EXCEPT !.crossbuildui = RecordAll(pkg.crossbuildui, infos)]

\* downloader.js:281-308.  pkgUpdateSpinner is a const of the try block
\* (289): the catch block's use of it (304) throws a ReferenceError, which
\* the catches at 319 and 323 turn into process.exit(1).
UpdateManifest ==
    /\ pc = "update"
    /\ installedPackagesInfo # <<>>
    /\ IF ~manifest.exists
       THEN /\ out' = out \cup {"package.json not found", "add manually"}
            /\ pc' = "notice"
            /\ UNCHANGED <<manifest, manifestOps, exitCode, faults>>
       ELSE \E f \in FaultsAt({"readJson", "writeJson"}) :
            /\ faults' = CountAt(f)
            /\ IF ~manifest.valid \/ f = "readJson"
               THEN /\ Fatal
                    /\ manifestOps' = manifestOps \cup {"read"}
                    /\ UNCHANGED manifest
               ELSE IF f = "writeJson"
               THEN /\ Fatal
                    /\ manifestOps' = manifestOps \cup {"read", "write"}
                    /\ \E m \in {manifest, MalformedManifest} : manifest' = m
               ELSE /\ manifestOps' = manifestOps \cup {"read", "write"}
                    /\ manifest' = RecordComponents(manifest,
                                                    installedPackagesInfo)
                    /\ out' = out \cup {"package.json updated"}
                    /\ pc' = "notice"
                    /\ UNCHANGED exitCode
    /\ UNCHANGED <<credVars, cmd, token, packagesToProcess, cbuiDir, dirs,
                   netVars, tmpVars, compVars, restVars>>

\* downloader.js:309-317, and the return of the command's action: the
\* process ends with status 0.
Finish ==
    /\ \/ pc = "notice"
       \/ pc = "update" /\ installedPackagesInfo = <<>>
    /\ Exit("0",
            IF installedPackagesInfo = <<>> THEN {"no components installed"}
            ELSE IF hasPeerDependencies THEN {"run npm install"}
            ELSE {"processed successfully"})
    /\ UNCHANGED <<credVars, cmd, token, packagesToProcess, projVars, netVars,
                   tmpVars, compVars, faults, restVars>>

NextInstall ==
    \/ CheckAuth
    \/ ResolveInstall
    \/ ResolveUpdate
    \/ Request
    \/ Download
    \/ Dispatch
    \/ Loop
    \/ CompInfo
    \/ CompDest
    \/ CompExtract
    \/ CompMerge
    \/ CompCleanup
    \/ TarCleanup
    \/ UpdateManifest
    \/ Finish

Spec == InitInstall /\ [][NextInstall]_vars

-----------------------------------------------------------------------------
(* The init command: lib/initProject.js, called from bin/cli.js:189-204 *)

\* What the other commands use, which init leaves alone.
installVars == <<cmd, token, packagesToProcess, projVars, netVars, tmpVars,
                 compVars, pairVars>>

\* The project directory: whether it exists, whether it holds what was there
\* before init ran, and its package.json and app.json ("none": no such
\* file, "template": as fetched, "garbage": no JSON, "edited": rewritten
\* by init).
Dir(e, o, p, a) == [exists |-> e, old |-> o, pkg |-> p, app |-> a]

AbsentDir == Dir(FALSE, FALSE, "none", "none")

EmptyDir == Dir(TRUE, FALSE, "none", "none")

\* A directory of the user's, from before init ran
OldDir == Dir(TRUE, TRUE, "none", "none")

\* What a removal that failed can leave of a directory
HalfRemoved(d) == {d, [d EXCEPT !.pkg = "none", !.app = "none"]}

\* The files of a template that matter to init
TemplateShapes ==
    {<<"template", "template">>, <<"none", "none">>,
     <<"garbage", "template">>, <<"template", "garbage">>}

\* Values of --template; "" is the option not given
TemplateNames == {"", "default", "Default", "cbui-free"}

\* cliTemplateName.toLowerCase()
ToLowerCase(t) == IF t = "Default" THEN "default" ELSE t

\* A prompt and the user's answer
Asked(q, a) == [q |-> q, a |-> a]

\* Proceeds going on whatever the user answers.
ProceedsAlways(exists, overwrite) == TRUE

\* initProject.js:46-64: whether initialization goes on past the check of
\* the directory
Proceeds(exists, overwrite) == ~exists \/ overwrite

\* RetryOffered after every failed fetch.
RetryOfferedAlways(t) == TRUE

\* initProject.js:80: cliTemplateName && cliTemplateName.toLowerCase() !==
\* 'default'
RetryOffered(t) == Truthy(t) /\ ToLowerCase(t) # "default"

\* CleanupOffered never asking.
CleanupOfferedNever(d) == FALSE

\* initProject.js:178: await fs.pathExists(projectDirectory)
CleanupOffered(d) == d.exists

\* An error that leaves initProject is caught by the command's action
\* (cli.js:199-203).
Escapes == Exit("1", {"failed to initialize project"})

\* The characters of a project name: a letter, and those that path.resolve
\* and split('@') treat specially.
NameChars == {"a", "@", "/", "."}

\* Values of <projectName>
ProjectNames == UNION {[1..n -> NameChars] : n \in 1..MaxLen}

RECURSIVE BeforeAt(_)

\* rawProjectName.split('@')[0], initProject.js:42
BeforeAt(s) ==
    IF s = <<>> \/ Head(s) = "@" THEN <<>>
    ELSE <<Head(s)>> \o BeforeAt(Tail(s))

RECURSIVE Segments(_)

\* The segments of a path name: what lies between its slashes
Segments(s) ==
    IF s = <<>> THEN << <<>> >>
    ELSE LET rest == Segments(Tail(s)) IN
         IF Head(s) = "/" THEN << <<>> >> \o rest
         ELSE << <<Head(s)>> \o rest[1] >> \o Tail(rest)

RECURSIVE Walk(_, _)

\* path.resolve's normalisation: empty segments and "." are dropped, ".."
\* goes to the parent, and the root is its own parent.
Walk(base, segs) ==
    IF segs = <<>> THEN base
    ELSE LET g == Head(segs) IN
         Walk(IF g = <<>> \/ g = <<".">> THEN base
              ELSE IF g = <<".", ".">>
              THEN (IF base = <<>> THEN base
                    ELSE SubSeq(base, 1, Len(base) - 1))
              ELSE Append(base, g),
              Tail(segs))

\* path.resolve(from, to): a path is the sequence of its segments below the
\* root.
Resolve(from, to) ==
    IF to # <<>> /\ Head(to) = "/" THEN Walk(<<>>, Segments(to))
    ELSE Walk(from, Segments(to))

\* process.cwd(): /a/w
Cwd == << <<"a">>, <<"w">> >>

\* const projectDirectory, initProject.js:42-44
ProjectDirectory(raw) == Resolve(Cwd, BeforeAt(raw))

\* p is q or a directory that q lies in
IsPrefix(p, q) == Len(p) <= Len(q) /\ SubSeq(q, 1, Len(p)) = p

\* The working directory and the directories it lies in exist.
InitInit ==
    /\ rawProjectName \in ProjectNames
    /\ removed = {}
    /\ InitAlone
    /\ projectDirectory \in
          (IF IsPrefix(ProjectDirectory(rawProjectName), Cwd) THEN {OldDir}
           ELSE {AbsentDir, OldDir})
    /\ cliTemplateName \in TemplateNames
    /\ templateToDownload = ""
    /\ prompts = <<>>
    /\ fetches = <<>>
    /\ pc = "initStart"
    /\ exitCode = "running"
    /\ tokenFile = AbsentFile
    /\ lastRead = Unread
    /\ credLog = [op |-> "none", token |-> "", n |-> 0]
    /\ InitIdle
    /\ str = <<>>
    /\ slug = <<>>
    /\ scheme = <<>>
    /\ server = "none"
    /\ httpLog = <<>>
    /\ login = "none"

\* initProject.js:46-68: an existing directory is removed if the user agrees.
\* fs.remove is outside the try: its error leaves initProject.
Overwrite ==
    /\ pc = "initStart"
    /\ \E overwrite \in BOOLEAN, f \in FaultsAt({"remove"}) :
        /\ projectDirectory.exists \/ (~overwrite /\ f = "ok")
        /\ overwrite \/ f = "ok"
        /\ faults' = CountAt(f)
        /\ prompts' = IF projectDirectory.exists
                      THEN Append(prompts, Asked("overwrite", overwrite))
                      ELSE prompts
        /\ removed' = IF projectDirectory.exists /\ overwrite
                      THEN removed \cup {ProjectDirectory(rawProjectName)}
                      ELSE removed
        /\ IF ~Proceeds(projectDirectory.exists, overwrite)
           THEN /\ Exit("0", {"initialization aborted"})
                /\ UNCHANGED <<projectDirectory, templateToDownload>>
           ELSE IF f = "remove"
           THEN /\ Escapes
                /\ \E d \in HalfRemoved(projectDirectory) :
                       projectDirectory' = d
                /\ UNCHANGED templateToDownload
           ELSE /\ projectDirectory' = AbsentDir
                /\ templateToDownload' =
                       (IF Truthy(cliTemplateName) THEN cliTemplateName
                        ELSE "default")
                /\ pc' = "initEnsure"
                /\ UNCHANGED <<exitCode, out>>
    /\ UNCHANGED <<credVars, installVars, cliTemplateName, fetches,
                   rawProjectName, slugVars, loginVars>>

\* initProject.js:70-72
EnsureDir ==
    /\ pc = "initEnsure"
    /\ \E f \in FaultsAt({"ensureDir"}) :
        /\ faults' = CountAt(f)
        /\ IF f = "ensureDir"
           THEN pc' = "initFailed" /\ UNCHANGED projectDirectory
           ELSE pc' = "initFetch" /\ projectDirectory' = EmptyDir
    /\ UNCHANGED <<credVars, installVars, exitCode, out, cliTemplateName,
                   templateToDownload, prompts, fetches, rawProjectName,
                   removed, slugVars, loginVars>>

\* What degit leaves in the directory: a template, or after a failure
\* nothing or a part of one
Fetched(ok) ==
    IF ok THEN {Dir(TRUE, FALSE, t[1], t[2]) : t \in TemplateShapes}
    ELSE {EmptyDir, Dir(TRUE, FALSE, "template", "none")}

\* initProject.js:74-81, 102-105: downloadGitTemplate of the requested
\* template (21-39), and what its failure leads to
FetchTemplate ==
    /\ pc = "initFetch"
    /\ \E ok \in BOOLEAN :
        /\ fetches' = Append(fetches, [template |-> templateToDownload,
                                        ok |-> ok])
        /\ \E d \in Fetched(ok) : projectDirectory' = d
        /\ out' = IF ok THEN out ELSE out \cup {"failed to download template"}
        /\ pc' = IF ok THEN "initPkg"
                 ELSE IF RetryOffered(cliTemplateName) THEN "initRetryPrompt"
                 ELSE "initFailed"
    /\ UNCHANGED <<credVars, installVars, exitCode, faults, cliTemplateName,
                   templateToDownload, prompts, rawProjectName, removed,
                   slugVars, loginVars>>

\* initProject.js:82-101: the user is asked whether to go on with the
\* default template; a refusal removes the directory and ends with status 0.
RetryPrompt ==
    /\ pc = "initRetryPrompt"
    /\ \E proceedWithDefault \in BOOLEAN, f \in FaultsAt({"remove"}) :
        /\ ~proceedWithDefault \/ f = "ok"
        /\ faults' = CountAt(f)
        /\ prompts' = Append(prompts,
                             Asked("proceedWithDefault", proceedWithDefault))
        /\ removed' = IF proceedWithDefault THEN removed
                      ELSE removed \cup {ProjectDirectory(rawProjectName)}
        /\ IF proceedWithDefault
           THEN /\ templateToDownload' = "default"
                /\ pc' = "initRetry"
                /\ UNCHANGED <<projectDirectory, exitCode, out>>
           ELSE IF f = "remove"
           THEN \* thrown in the inner catch, caught by the outer one
                /\ pc' = "initFailed"
                /\ \E d \in HalfRemoved(projectDirectory) :
                       projectDirectory' = d
                /\ out' = out \cup {"aborted by user"}
                /\ UNCHANGED <<templateToDownload, exitCode>>
           ELSE /\ Exit("0", {"aborted by user"})
                /\ projectDirectory' = AbsentDir
                /\ UNCHANGED templateToDownload
    /\ UNCHANGED <<credVars, installVars, cliTemplateName, fetches,
                   rawProjectName, slugVars, loginVars>>

\* initProject.js:91-95: downloadGitTemplate of the default template; its
\* error is thrown in the inner catch and caught by the outer one.
RetryFetch ==
    /\ pc = "initRetry"
    /\ \E ok \in BOOLEAN :
        /\ fetches' = Append(fetches, [template |-> "default", ok |-> ok])
        /\ \E d \in Fetched(ok) : projectDirectory' = d
        /\ out' = IF ok THEN out ELSE out \cup {"failed to download template"}
        /\ pc' = IF ok THEN "initPkg" ELSE "initFailed"
    /\ UNCHANGED <<credVars, installVars, exitCode, faults, cliTemplateName,
                   templateToDownload, prompts, rawProjectName, removed,
                   slugVars, loginVars>>

\* initProject.js:113-122: the name in the template's package.json
EditPackageJson ==
    /\ pc = "initPkg"
    /\ \E f \in FaultsAt({"readJson", "writeJson"}) :
        /\ projectDirectory.pkg # "none" \/ f = "ok"
        /\ faults' = CountAt(f)
        /\ IF projectDirectory.pkg = "none"
           THEN /\ pc' = "initApp"
                /\ out' = out \cup {"package.json not found in the template"}
                /\ UNCHANGED projectDirectory
           ELSE IF projectDirectory.pkg = "garbage" \/ f = "readJson"
           THEN /\ pc' = "initFailed"
                /\ UNCHANGED <<projectDirectory, out>>
           ELSE IF f = "writeJson"
           THEN /\ pc' = "initFailed"
                /\ \E p \in {"template", "garbage"} :
                       projectDirectory' = [projectDirectory EXCEPT !.pkg = p]
                /\ UNCHANGED out
           ELSE /\ pc' = "initApp"
                /\ projectDirectory' = [projectDirectory EXCEPT !.pkg = "edited"]
                /\ UNCHANGED out
    /\ UNCHANGED <<credVars, installVars, exitCode, cliTemplateName,
                   templateToDownload, prompts, fetches, rawProjectName,
                   removed, slugVars, loginVars>>

\* initProject.js:124-174: the name, slug and scheme in the template's
\* app.json, and the end of a successful initialization
EditAppJson ==
    /\ pc = "initApp"
    /\ \E f \in FaultsAt({"readJson", "writeJson"}) :
        /\ projectDirectory.app # "none" \/ f = "ok"
        /\ faults' = CountAt(f)
        /\ IF projectDirectory.app = "none"
           THEN /\ Exit("0", {"app.json not found in the template",
                              "initialized"})
                /\ UNCHANGED <<projectDirectory, prompts>>
           ELSE IF projectDirectory.app = "garbage" \/ f = "readJson"
           THEN /\ pc' = "initFailed"
                /\ UNCHANGED <<projectDirectory, prompts, exitCode, out>>
           ELSE /\ prompts' = Append(prompts, Asked("appDetails", TRUE))
                /\ IF f = "writeJson"
                   THEN /\ pc' = "initFailed"
                        /\ \E a \in {"template", "garbage"} :
                             projectDirectory' =
                                 [projectDirectory EXCEPT !.app = a]
                        /\ UNCHANGED <<exitCode, out>>
                   ELSE /\ Exit("0", {"initialized"})
                        /\ projectDirectory' =
                               [projectDirectory EXCEPT !.app = "edited"]
    /\ UNCHANGED <<credVars, installVars, cliTemplateName, templateToDownload,
                   fetches, rawProjectName, removed, slugVars, loginVars>>

\* initProject.js:176-194: the outer catch.  An error of its fs.remove
\* leaves initProject; the process ends with status 1 either way.
Failed ==
    /\ pc = "initFailed"
    /\ \E confirmCleanup \in BOOLEAN, f \in FaultsAt({"remove"}) :
        /\ CleanupOffered(projectDirectory) \/ ~confirmCleanup
        /\ confirmCleanup \/ f = "ok"
        /\ faults' = CountAt(f)
        /\ prompts' = IF CleanupOffered(projectDirectory)
                      THEN Append(prompts,
                                  Asked("confirmCleanup", confirmCleanup))
                      ELSE prompts
        /\ removed' = IF confirmCleanup
                      THEN removed \cup {ProjectDirectory(rawProjectName)}
                      ELSE removed
        /\ IF ~confirmCleanup
           THEN /\ Exit("1", {"error during initialization"})
                /\ UNCHANGED projectDirectory
           ELSE IF f = "remove"
           THEN /\ Exit("1", {"error during initialization",
                              "failed to initialize project"})
                /\ \E d \in HalfRemoved(projectDirectory) :
                       projectDirectory' = d
           ELSE /\ Exit("1", {"error during initialization"})
                /\ projectDirectory' = AbsentDir
    /\ UNCHANGED <<credVars, installVars, cliTemplateName, templateToDownload,
                   fetches, rawProjectName, slugVars, loginVars>>

NextInit ==
    \/ Overwrite
    \/ EnsureDir
    \/ FetchTemplate
    \/ RetryPrompt
    \/ RetryFetch
    \/ EditPackageJson
    \/ EditAppJson
    \/ Failed

SpecInit == InitInit /\ [][NextInit]_vars

-----------------------------------------------------------------------------
(* slugify and the default URL scheme: lib/initProject.js:13-19, 117-148 *)

\* Characters: a lower-case and an upper-case letter, a digit, a blank, the
\* hyphen, the underscore, and a character that is none of these.
Chars == {"a", "A", "1", " ", "-", "_", "!"}

\* The strings of at most n characters
Strings(n) == UNION {[1..k -> Chars] : k \in 0..n}

\* toLowerCase() of one character
LowerChar(c) == IF c = "A" THEN "a" ELSE c

\* \s
IsSpace(c) == c = " "

\* [\w-]
IsWordOrHyphen(c) == c \in {"a", "A", "1", "_", "-"}

\* str.toLowerCase()
LowerCase(s) == [i \in DOMAIN s |-> LowerChar(s[i])]

RECURSIVE DropSpaces(_)

\* s without the whitespace it starts with
DropSpaces(s) ==
    IF s # <<>> /\ IsSpace(Head(s)) THEN DropSpaces(Tail(s)) ELSE s

RECURSIVE ReplaceSpaces(_)

\* .replace(/\s+/g, '-')
ReplaceSpaces(s) ==
    IF s = <<>> THEN <<>>
    ELSE IF IsSpace(Head(s)) THEN <<"-">> \o ReplaceSpaces(DropSpaces(s))
    ELSE <<Head(s)>> \o ReplaceSpaces(Tail(s))

\* .replace(/[^\w-]+/g, '')
StripNonWord(s) == SelectSeq(s, IsWordOrHyphen)

RECURSIVE CollapseHyphens(_)

\* .replace(/--+/g, '-')
CollapseHyphens(s) ==
    IF s = <<>> THEN <<>>
    ELSE IF Head(s) = "-" /\ Tail(s) # <<>> /\ Head(Tail(s)) = "-"
    THEN CollapseHyphens(Tail(s))
    ELSE <<Head(s)>> \o CollapseHyphens(Tail(s))

\* Slugify collapsing the hyphens before it strips the other characters.
SlugifyCollapseFirst(s) ==
    StripNonWord(CollapseHyphens(ReplaceSpaces(LowerCase(s))))

\* slugify(str)
Slugify(s) == CollapseHyphens(StripNonWord(ReplaceSpaces(LowerCase(s))))

RECURSIVE RemoveFirstHyphen(_)

\* RemoveHyphens replacing the first hyphen only.
RemoveFirstHyphen(s) ==
    IF s = <<>> THEN <<>>
    ELSE IF Head(s) = "-" THEN Tail(s)
    ELSE <<Head(s)>> \o RemoveFirstHyphen(Tail(s))

NotHyphen(c) == c # "-"

\* .replace(/-/g, '')
RemoveHyphens(s) == SelectSeq(s, NotHyphen)

InitSlug ==
    /\ str \in Strings(MaxLen)
    /\ slug = <<>>
    /\ scheme = <<>>
    /\ pc = "slugify"
    /\ exitCode = "running"
    /\ tokenFile = AbsentFile
    /\ lastRead = Unread
    /\ credLog = [op |-> "none", token |-> "", n |-> 0]
    /\ InitIdle
    /\ InitAlone
    /\ rawProjectName = <<>>
    /\ removed = {}
    /\ projectDirectory = AbsentDir
    /\ cliTemplateName = ""
    /\ templateToDownload = ""
    /\ prompts = <<>>
    /\ fetches = <<>>
    /\ server = "none"
    /\ httpLog = <<>>
    /\ login = "none"

\* The defaults init computes from the project's name (initProject.js:141,
\* 148)
SlugifyName ==
    /\ pc = "slugify"
    /\ slug' = Slugify(str)
    /\ scheme' = RemoveHyphens(Slugify(str))
    /\ pc' = "slugified"
    /\ UNCHANGED <<credVars, installVars, exitCode, out, faults, initVars,
                   str, loginVars>>

NextSlug == SlugifyName

SpecSlug == InitSlug /\ [][NextSlug]_vars

-----------------------------------------------------------------------------
(* The login command: initiateLoginFlow, lib/auth.js:36-96, called from
   bin/cli.js:54-61 *)

CallbackPath == "/cli-auth-callback"

Paths == {CallbackPath, "/favicon.ico"}

\* The listener: whether it accepts connections, the number of requests it
\* has received, the handlers that wait at `await saveToken(token)` or are
\* past it, and which of resolve and reject its first close() will call.
Listener(st, n, hs, settle) ==
    [state |-> st, n |-> n, handling |-> hs, settle |-> settle]

NoListener == Listener("none", 0, {}, "")

Event(ev, id, path, value) ==
    [ev |-> ev, id |-> id, path |-> path, value |-> value]

\* MayRespond for a handler that does not await saveToken.
MayRespondUnsaved(h) == TRUE

\* auth.js:49-51: the response is written after `await saveToken(token)`
MayRespond(h) == h.saved

\* server.close(callback): no new connection is accepted; the callback runs
\* once the open connections have ended, and the first callback registered
\* settles the promise.
Close(s, left, how) ==
    [s EXCEPT !.state = IF left = {} THEN "closed" ELSE "closing",
              !.handling = left,
              !.settle = IF s.settle = "" THEN how ELSE s.settle]

\* cli.js:55-60: the login action ends the process when the promise settles.
Settle(s) ==
    IF s.state = "closed"
    THEN /\ login' = (IF s.settle = "resolve" THEN "resolved" ELSE "rejected")
         /\ Exit(IF s.settle = "resolve" THEN "0" ELSE "1", {})
    ELSE UNCHANGED <<login, pc, exitCode, out>>

InitLogin ==
    /\ tokenFile \in TokenFiles
    /\ lastRead = Unread
    /\ credLog = [op |-> "none", token |-> "", n |-> 0]
    /\ pc = "login"
    /\ exitCode = "running"
    /\ InitIdle
    /\ InitAlone
    /\ rawProjectName = <<>>
    /\ removed = {}
    /\ projectDirectory = AbsentDir
    /\ cliTemplateName = ""
    /\ templateToDownload = ""
    /\ prompts = <<>>
    /\ fetches = <<>>
    /\ str = <<>>
    /\ slug = <<>>
    /\ scheme = <<>>
    /\ server = NoListener
    /\ httpLog = <<>>
    /\ login = "none"

\* auth.js:36-44, 72-74, 90-94: nothing to do for a user who is logged in;
\* otherwise the listener is started, which fails if the port is taken.
StartLogin ==
    /\ pc = "login"
    /\ \E f \in FaultsAt({"listen"}) :
        /\ ~IsAuthenticated(tokenFile) \/ f = "ok"
        /\ faults' = CountAt(f)
        /\ IF IsAuthenticated(tokenFile)
           THEN /\ login' = "resolved"
                /\ Exit("0", {"already logged in"})
                /\ UNCHANGED server
           ELSE IF f = "listen"
           THEN /\ login' = "rejected"
                /\ Exit("1", {"local server error"})
                /\ UNCHANGED server
           ELSE /\ login' = "pending"
                /\ server' = Listener("listening", 0, {}, "")
                /\ pc' = "serving"
                /\ UNCHANGED <<exitCode, out>>
    /\ UNCHANGED <<credVars, installVars, initVars, slugVars, httpLog>>

\* auth.js:44-48, 57-69: a request arrives.  One for the callback path with
\* a token waits for saveToken; one without a token is answered 400 and
\* closes the listener, rejecting; any other path is answered 404.
Receive ==
    /\ pc = "serving"
    /\ server.state = "listening"
    /\ server.n < MaxRequests
    /\ \E path \in Paths, t \in Tokens \cup {""} :
        LET id == server.n + 1
            s == [server EXCEPT !.n = id] IN
        IF path # CallbackPath
        THEN /\ httpLog' = Append(httpLog, Event("response", id, path, "404"))
             /\ server' = s
             /\ UNCHANGED <<login, pc, exitCode, out>>
        ELSE IF Truthy(t)
        THEN /\ server' = [s EXCEPT !.handling =
                              @ \cup {[id |-> id, token |-> t, saved |-> FALSE]}]
             /\ UNCHANGED <<httpLog, login, pc, exitCode, out>>
        ELSE /\ httpLog' = Append(httpLog, Event("response", id, path, "400"))
             /\ server' = Close(s, s.handling, "reject")
             /\ Settle(Close(s, s.handling, "reject"))
    /\ UNCHANGED <<credVars, installVars, faults, initVars, slugVars>>

\* auth.js:49 with saveToken (19-30): the token is written, or the process
\* ends with status 1.
HandlerSave ==
    /\ pc = "serving"
    /\ \E h \in server.handling, fail \in FaultChoice :
        /\ ~h.saved
        /\ faults' = Count(fail)
        /\ IF fail
           THEN /\ \E f \in {tokenFile, GarbageFile} : tokenFile' = f
                /\ Exit("1", {"error saving token"})
                /\ UNCHANGED <<server, httpLog>>
           ELSE /\ tokenFile' = TokenJson(h.token)
                /\ server' = [server EXCEPT !.handling =
                                 (@ \ {h}) \cup {[h EXCEPT !.saved = TRUE]}]
                /\ httpLog' = Append(httpLog,
                                     Event("saved", h.id, CallbackPath, h.token))
                /\ UNCHANGED <<pc, exitCode, out>>
    /\ UNCHANGED <<lastRead, credLog, installVars, initVars, slugVars, login>>

\* auth.js:50-56: the confirmation page is sent and the listener closed,
\* resolving.
HandlerRespond ==
    /\ pc = "serving"
    /\ \E h \in server.handling :
        /\ MayRespond(h)
        /\ httpLog' = Append(httpLog,
                             Event("response", h.id, CallbackPath, "200"))
        /\ server' = Close(server, server.handling \ {h}, "resolve")
        /\ Settle(Close(server, server.handling \ {h}, "resolve"))
    /\ UNCHANGED <<credVars, installVars, faults, initVars, slugVars>>

NextLogin ==
    \/ StartLogin
    \/ Receive
    \/ HandlerSave
    \/ HandlerRespond

SpecLogin == InitLogin /\ [][NextLogin]_vars

-----------------------------------------------------------------------------
(* Two invocations of install or update at the same time: the paths that
   downloadPackage uses, lib/downloader.js:10-11, 58-73, 95-98, 160-161,
   222-225, 237-242, 269-273 *)

Invocations == {1, 2}

\* A path: the directory it is in, its name without the suffix that
\* path.basename strips, that suffix, and the Date.now() in its name (0:
\* none).
File(dir, base, ext, stamp) ==
    [dir |-> dir, base |-> base, ext |-> ext, stamp |-> stamp]

NoFile == File("", "", "", 0)

\* What the server answers: the content type, the file name of the
\* Content-Disposition header ('downloaded_packages' without one) and the
\* component the download holds.
PairResponse(ct, base, ext, folder) ==
    [contentType |-> ct, base |-> base, ext |-> ext, folder |-> folder]

PairResponses ==
    {PairResponse("application/gzip", "downloaded_packages", "", f) :
        f \in {"button", "card"}}
    \cup
    {PairResponse("application/gzip", "button", ".tgz", "button"),
     PairResponse("application/x-tar", "downloaded_packages", "", "button"),
     PairResponse("application/x-tar", "components", ".tar", "card")}

\* path.join(DOWNLOADS_DIR, filename), downloader.js:64
DownloadFilePath(r) == File("downloads", r.base, r.ext, 0)

\* path.join(DOWNLOADS_DIR, 'extracted_tar_contents',
\*           path.basename(filename, '.tar')), downloader.js:240
TarExtractDir(r) ==
    File("downloads/extracted_tar_contents", r.base,
         IF r.ext = ".tar" THEN "" ELSE r.ext, 0)

\* cbui-cli-pkg-info-<basename(tgzPath, '.tgz')>-<Date.now()> below
\* os.tmpdir(), downloader.js:97
InfoExtractDir(tgzPath, t) ==
    File("tmp/cbui-cli-pkg-info", tgzPath.base,
         IF tgzPath.ext = ".tgz" THEN "" ELSE tgzPath.ext, t)

\* cbui-cli-extract-<componentFolderName>-<Date.now()> below os.tmpdir(),
\* downloader.js:160
InstallExtractDir(folder, t) == File("tmp/cbui-cli-extract", folder, "", t)

\* One access of a path by an invocation
Touch(p, path, op) == [by |-> p, path |-> path, op |-> op]

\* An invocation: its position, the server's answer, the archive it
\* installs (tgzPath), the component folder read from it, its scratch
\* directory, and the paths it has made and not yet removed.
Invocation(at, r, t, f, s, held) ==
    [pc |-> at, response |-> r, tgzPath |-> t, folder |-> f, scratch |-> s,
     paths |-> held]

\* fs.ensureDir(path): a directory that is there is left as it is
EnsuredDir(d, path, p) == IF path \in DOMAIN d THEN d ELSE Put(d, path, p)

InitPair ==
    /\ inv = [p \in Invocations |->
                Invocation("request",
                           PairResponse("", "", "", ""), NoFile, "", NoFile,
                           {})]
    /\ disk = EmptyMap
    /\ now = 0
    /\ access = {}
    /\ pc = "pair"
    /\ exitCode = "running"
    /\ tokenFile = TokenJson("tokA")
    /\ lastRead = Unread
    /\ credLog = [op |-> "none", token |-> "", n |-> 0]
    /\ InitIdle
    /\ rawProjectName = <<>>
    /\ removed = {}
    /\ projectDirectory = AbsentDir
    /\ cliTemplateName = ""
    /\ templateToDownload = ""
    /\ prompts = <<>>
    /\ fetches = <<>>
    /\ str = <<>>
    /\ slug = <<>>
    /\ scheme = <<>>
    /\ server = NoListener
    /\ httpLog = <<>>
    /\ login = "none"

\* What the two invocations leave alone.
singleVars == <<credVars, cliVars, projVars, netVars, tmpVars, compVars, out,
                faults, initVars, slugVars, loginVars>>

\* The clock goes on.
Tick ==
    /\ pc = "pair"
    /\ now < MaxClock
    /\ now' = now + 1
    /\ access' = {}
    /\ UNCHANGED <<inv, disk, singleVars>>

\* downloader.js:29-61: the server's answer.
PairRequest(p) ==
    /\ inv[p].pc = "request"
    /\ \E r \in PairResponses :
        inv' = [inv EXCEPT ![p].pc = "download", ![p].response = r]
    /\ access' = {}
    /\ UNCHANGED <<disk, now, singleVars>>

\* downloader.js:63-73, 228-237: the body is written to the download path.
PairDownload(p) ==
    /\ inv[p].pc = "download"
    /\ LET r == inv[p].response
           path == DownloadFilePath(r)
           h == Handling(r.contentType, r.ext) IN
        /\ disk' = Put(disk, path, r.folder)
        /\ access' = {Touch(p, path, "write")}
        /\ inv' = [inv EXCEPT ![p].pc = IF h = "single" THEN "info"
                                        ELSE "tarExtract",
                              ![p].tgzPath = IF h = "single" THEN path
                                             ELSE NoFile,
                              ![p].paths = @ \cup {path}]
    /\ UNCHANGED <<now, singleVars>>

\* downloader.js:237-251, 271-275: the container is extracted to its
\* scratch directory, which is emptied first; the entries are in that
\* directory.  Without the container the process ends.
PairTarExtract(p) ==
    /\ inv[p].pc = "tarExtract"
    /\ LET r == inv[p].response
           path == DownloadFilePath(r)
           dir == TarExtractDir(r) IN
        /\ access' = {Touch(p, dir, "write"), Touch(p, path, "read")}
        /\ IF path \in DOMAIN disk
           THEN /\ disk' = Put(disk, dir, disk[path])
                /\ inv' = [inv EXCEPT ![p].pc = "info",
                                      ![p].tgzPath = dir,
                                      ![p].paths = @ \cup {dir}]
           ELSE /\ disk' = RemoveDir(disk, dir)
                /\ inv' = [inv EXCEPT ![p].pc = "done", ![p].paths = {}]
    /\ UNCHANGED <<now, singleVars>>

\* downloader.js:95-98: the scratch directory of getPackageInfoFromTgz.
PairInfoDir(p) ==
    /\ inv[p].pc = "info"
    /\ LET dir == InfoExtractDir(inv[p].tgzPath, now) IN
        /\ disk' = EnsuredDir(disk, dir, "")
        /\ access' = {Touch(p, dir, "write")}
        /\ inv' = [inv EXCEPT ![p].pc = "infoRead",
                              ![p].scratch = dir,
                              ![p].paths = @ \cup {dir}]
    /\ UNCHANGED <<now, singleVars>>

\* installComponentTgz returns: a container's loop goes on to 269.
PairReturn(p) == IF inv[p].response.contentType = "application/x-tar"
                 THEN "tarCleanup" ELSE "done"

\* downloader.js:99-133, 144-149: package.json is read from the archive and
\* the scratch directory removed; an archive that cannot be read is skipped
\* and removed.
PairInfo(p) ==
    /\ inv[p].pc = "infoRead"
    /\ LET t == inv[p].tgzPath
           dir == inv[p].scratch IN
        IF t \in DOMAIN disk
        THEN /\ access' = {Touch(p, t, "read"), Touch(p, dir, "write"),
                           Touch(p, dir, "remove")}
             /\ disk' = RemoveDir(disk, dir)
             /\ inv' = [inv EXCEPT ![p].pc = "extractDir",
                                   ![p].folder = disk[t],
                                   ![p].scratch = NoFile,
                                   ![p].paths = @ \ {dir}]
        ELSE /\ access' = {Touch(p, t, "read"), Touch(p, dir, "remove"),
                           Touch(p, t, "remove")}
             /\ disk' = RemoveDir(disk, dir)
             /\ inv' = [inv EXCEPT ![p].pc = PairReturn(p),
                                   ![p].scratch = NoFile,
                                   ![p].paths = @ \ {dir, t}]
    /\ UNCHANGED <<now, singleVars>>

\* downloader.js:151-161: the scratch directory of the extraction.
PairExtractDir(p) ==
    /\ inv[p].pc = "extractDir"
    /\ LET dir == InstallExtractDir(inv[p].folder, now) IN
        /\ disk' = EnsuredDir(disk, dir, "")
        /\ access' = {Touch(p, dir, "write")}
        /\ inv' = [inv EXCEPT ![p].pc = "extract",
                              ![p].scratch = dir,
                              ![p].paths = @ \cup {dir}]
    /\ UNCHANGED <<now, singleVars>>

\* downloader.js:163-225: the archive is extracted to the scratch
\* directory; whatever happens, the scratch directory and the archive are
\* removed.  A container's entry goes from the container's scratch
\* directory, which stays.
PairExtract(p) ==
    /\ inv[p].pc = "extract"
    /\ LET t == inv[p].tgzPath
           dir == inv[p].scratch
           entry == inv[p].response.contentType = "application/x-tar" IN
        /\ access' = {Touch(p, t, "read"), Touch(p, dir, "write"),
                      Touch(p, dir, "remove"),
                      Touch(p, t, IF entry THEN "write" ELSE "remove")}
        /\ disk' = IF entry THEN RemoveDir(disk, dir)
                   ELSE RemoveDir(RemoveDir(disk, dir), t)
        /\ inv' = [inv EXCEPT ![p].pc = PairReturn(p),
                              ![p].scratch = NoFile,
                              ![p].paths = IF entry THEN @ \ {dir}
                                           ELSE @ \ {dir, t}]
    /\ UNCHANGED <<now, singleVars>>

\* downloader.js:263-270: the container's scratch directory and the
\* container are removed.
PairTarCleanup(p) ==
    /\ inv[p].pc = "tarCleanup"
    /\ LET path == DownloadFilePath(inv[p].response)
           dir == TarExtractDir(inv[p].response) IN
        /\ access' = {Touch(p, dir, "remove"), Touch(p, path, "remove")}
        /\ disk' = RemoveDir(RemoveDir(disk, dir), path)
        /\ inv' = [inv EXCEPT ![p].pc = "done", ![p].paths = {}]
    /\ UNCHANGED <<now, singleVars>>

NextPair ==
    \/ Tick
    \/ \E p \in Invocations : PairRequest(p)
    \/ \E p \in Invocations : PairDownload(p)
    \/ \E p \in Invocations : PairTarExtract(p)
    \/ \E p \in Invocations : PairInfoDir(p)
    \/ \E p \in Invocations : PairInfo(p)
    \/ \E p \in Invocations : PairExtractDir(p)
    \/ \E p \in Invocations : PairExtract(p)
    \/ \E p \in Invocations : PairTarCleanup(p)

SpecPair == InitPair /\ [][NextPair]_vars

-----------------------------------------------------------------------------
(* Properties *)

\* An archive whose embedded manifest is missing or lacks a name or a version.
Malformed(a) == ~a.manifest \/ a.name = NoName \/ a.version = ""

WellFormedArchive(a) == a.tgz /\ ~Malformed(a)

\* No I/O error happened and package.json, if there is one, can be read.
Undisturbed == faults = 0 /\ (manifest.exists => manifest.valid)

C1_SkipStep ==
    (pc = "compInfo" /\ Malformed(items[idx]) /\ faults' = faults) =>
        /\ idx \notin tgz'
        /\ installedPackagesInfo' = installedPackagesInfo
        /\ dirs' = dirs
        /\ manifest' = manifest
        /\ exitCode' = "running"
        /\ IF mode = "tar" THEN pc' = "loop" /\ idx' = idx + 1
           ELSE pc' = "update"

C1_Batch ==
    (mode = "tar" /\ Undisturbed) =>
        /\ exitCode # "1"
        /\ pc = "exited" =>
            LET wf == SelectSeq(items, WellFormedArchive) IN
            /\ Len(installedPackagesInfo) = Len(wf)
            /\ \A i \in 1..Len(wf) :
                /\ installedPackagesInfo[i].name = wf[i].name
                /\ installedPackagesInfo[i].version = wf[i].version
                /\ FolderName(wf[i].name) \in DOMAIN dirs
                /\ manifest.exists =>
                    Get(manifest.crossbuildui, wf[i].name) = wf[i].version

\* C1: a malformed archive of a batch is skipped and discarded, the other
\* archives are still processed, and the invocation does not fail: absent
\* any I/O error, exactly the well-formed archives of a container are
\* installed and recorded, and the process ends with status 0.
C1_MalformedSkipped == []C1_Batch /\ [][C1_SkipStep]_vars

\* A container of three archives, the second malformed, was processed.
C1_Witness ==
    /\ pc = "exited"
    /\ exitCode = "0"
    /\ mode = "tar"
    /\ Undisturbed
    /\ Len(items) = 3
    /\ WellFormedArchive(items[1])
    /\ items[2].tgz /\ Malformed(items[2])
    /\ WellFormedArchive(items[3])
    /\ Len(installedPackagesInfo) = 2
    /\ manifest.exists
    /\ Get(manifest.crossbuildui, items[1].name) = items[1].version
    /\ Get(manifest.crossbuildui, items[3].name) = items[3].version
    /\ tgz = {}

-----------------------------------------------------------------------------

\* C2: a failure in a component's steps a to d is caught for that component:
\* no such step ends the invocation with status 1.
C2_PerComponentContained ==
    [][(pc \in {"compInfo", "compDest", "compExtract", "compMerge"})
         => (exitCode' # "1")]_vars

-----------------------------------------------------------------------------

\* The package endpoint answered with a non-success status.
RequestFailed == response.status # 0 /\ response.status \notin 200..299

C3_Exit ==
    RequestFailed =>
        /\ pc = "exited"
        /\ exitCode = "1"
        /\ Len(requests) = 1
        /\ "failed to download packages" \in out
        /\ "authentication failed" \in out <=> response.status \in {401, 403}
        /\ "write" \notin manifestOps

\* Until a success status arrives nothing of the project changes and at most
\* one request is sent.
C3_Frame ==
    response'.status \notin 200..299 =>
        /\ UNCHANGED <<manifest, cbuiDir, dirs>>
        /\ Len(requests') <= 1

\* C3 as claimed: a non-success status ends the invocation with status 1,
\* without a retry and without the project manifest having been read or
\* written.
C3_NeverRead == C3_Exit /\ (RequestFailed => manifestOps = {})

\* C3, amended: a non-success status (401 and 403 with the authentication
\* message) ends the invocation with status 1, without a retry and without
\* the project manifest or a component folder having been written or
\* created; the manifest was read only if no component names were given.
C3_FatalStatus ==
    /\ [](C3_Exit /\ (RequestFailed /\ "read" \in manifestOps
                        => cmd.names = <<>>))
    /\ [][C3_Frame]_vars

\* A 401 answered a request whose names were read from the manifest.
C3_Witness ==
    /\ response.status = 401
    /\ pc = "exited"
    /\ "authentication failed" \in out
    /\ manifestOps = {"read"}
    /\ cmd.names = <<>>

-----------------------------------------------------------------------------

\* C4: no step changes the version of a name of the manifest's ordinary
\* dependencies, and a name is added to them only if it is in neither the
\* ordinary nor the peer dependencies.
C4_NeverOverwrites ==
    [][(manifest.valid /\ manifest'.valid) =>
          /\ \A d \in DOMAIN manifest.dependencies :
                /\ d \in DOMAIN manifest'.dependencies
                /\ manifest'.dependencies[d] = manifest.dependencies[d]
          /\ \A d \in (DOMAIN manifest'.dependencies)
                        \ DOMAIN manifest.dependencies :
                d \notin DOMAIN manifest.peerDependencies]_vars

-----------------------------------------------------------------------------

\* The version the batch gives a name: that of its last entry of that name.
BatchNames == {installedPackagesInfo[i].name : i \in DOMAIN installedPackagesInfo}

IsLastOfName(i) ==
    \A j \in DOMAIN installedPackagesInfo :
        installedPackagesInfo[j].name = installedPackagesInfo[i].name => j <= i

C5_UpdateStep ==
    (pc = "update" /\ pc' = "notice" /\ manifest.exists) =>
        /\ DOMAIN manifest'.crossbuildui
              = (DOMAIN manifest.crossbuildui) \cup BatchNames
        /\ \A n \in (DOMAIN manifest.crossbuildui) \ BatchNames :
              manifest'.crossbuildui[n] = manifest.crossbuildui[n]
        /\ \A i \in DOMAIN installedPackagesInfo :
              IsLastOfName(i) =>
                  manifest'.crossbuildui[installedPackagesInfo[i].name]
                      = installedPackagesInfo[i].version
        /\ manifest'.dependencies = manifest.dependencies
        /\ manifest'.peerDependencies = manifest.peerDependencies

\* C5: the batch-level update changes the tracked components only at the
\* names of the batch, which get the batch's versions; every other tracked
\* name keeps its version.
C5_RecordsOnlyBatch == [][C5_UpdateStep]_vars

\* Tracked {button 0.9.0, card 1.0.0} and the batch {card 2.0.0, altbutton
\* 2.0.0} gave {button 0.9.0, card 2.0.0, altbutton 2.0.0}.
C5_Witness ==
    /\ pc = "notice"
    /\ "package.json updated" \in out
    /\ DOMAIN manifest.crossbuildui = {Button, Card, AltButton}
    /\ manifest.crossbuildui[Button] = "0.9.0"
    /\ manifest.crossbuildui[Card] = "2.0.0"
    /\ manifest.crossbuildui[AltButton] = "2.0.0"
    /\ BatchNames = {Card, AltButton}

-----------------------------------------------------------------------------

\* C6: when reading or writing package.json fails in the batch-level update,
\* the invocation does not exit with status 1 and prints the pairs to add.
C6_UpdateFailureDegrades ==
    [][(/\ pc = "update"
        /\ installedPackagesInfo # <<>>
        /\ manifest.exists
        /\ ~manifest.valid \/ faults' > faults)
          => (exitCode' # "1" /\ "add manually" \in out')]_vars

-----------------------------------------------------------------------------

\* A content type that names neither kind of tarball, or none.
UnrecognizedType(ct) == ct \notin {"application/gzip", "application/x-tar"}

NothingInstalledStep ==
    /\ pc' = "update"
    /\ "unhandled content type" \in out'
    /\ installedPackagesInfo' = <<>>
    /\ UNCHANGED <<manifest, dirs, exitCode>>

\* C7 as claimed: an unrecognized content type stops processing with a
\* warning, nothing installed or changed.
C7_UnrecognizedInstallsNothing ==
    [][(pc = "dispatch" /\ UnrecognizedType(response.contentType))
          => NothingInstalledStep]_vars

C7_DispatchStep ==
    (/\ pc = "dispatch"
     /\ \/ response.contentType = ""
        \/ /\ UnrecognizedType(response.contentType)
           /\ response.ext \notin {".tgz", ".tar.gz"})
      => NothingInstalledStep

C7_AfterStep ==
    "unhandled content type" \in out =>
        /\ UNCHANGED <<manifest, dirs, installedPackagesInfo>>
        /\ exitCode' # "1"

\* C7, amended: when the content type is missing, or names neither kind of
\* tarball while the file name does not end in .tgz or .tar.gz, processing
\* stops with a warning: nothing is installed, no folder and no manifest
\* entry changes, and the invocation ends with status 0.
C7_UnhandledInstallsNothing ==
    /\ [][C7_DispatchStep]_vars
    /\ [][C7_AfterStep]_vars
    /\ []("unhandled content type" \in out /\ pc = "exited"
            => exitCode = "0" /\ installedPackagesInfo = <<>>)

\* An octet-stream download named without a tarball suffix ended the
\* invocation with the warning.
C7_Witness ==
    /\ response.contentType = "application/octet-stream"
    /\ response.ext = ""
    /\ "unhandled content type" \in out
    /\ pc = "exited"
    /\ exitCode = "0"

-----------------------------------------------------------------------------

\* The command takes its names from package.json.
NamesFromManifest ==
    \/ cmd.name = "install" /\ Len(cmd.names) = 0
    \/ cmd.name = "update" /\ cmd.all

\* package.json is absent, or is read with an empty or missing section.
NothingTracked ==
    ~manifest.exists \/ (manifest.valid /\ DOMAIN manifest.crossbuildui = {})

\* A token is present in the credential store.
TokenPresent == tokenFile.state = "json" /\ tokenFile.token # ""

\* q lists exactly the elements of S, each once.
ListsExactly(q, S) ==
    /\ {q[i] : i \in DOMAIN q} = S
    /\ Len(q) = Cardinality(S)

\* C8 as stated, for a command that has ended: install without names, or
\* update with --all, finding no manifest or an empty section sends no request
\* and exits with status 0.
C8_NothingTrackedExitsZero ==
    (NamesFromManifest /\ NothingTracked /\ pc = "exited")
        => (requests = <<>> /\ exitCode = "0")

C8_RequestStep ==
    (NamesFromManifest /\ Len(cmd.names) = 0 /\ requests' # requests)
        => /\ Len(requests') = 1
           /\ ListsExactly(requests'[1].components,
                           DOMAIN manifest.crossbuildui)
           /\ DOMAIN manifest.crossbuildui # {}

C8_Nothing ==
    (/\ NamesFromManifest
     /\ Len(cmd.names) = 0
     /\ TokenPresent
     /\ NothingTracked
     /\ faults = 0)
        => /\ requests = <<>>
           /\ pc \in {"start", "resolve", "exited"}
           /\ pc = "exited" => exitCode = "0"

\* C8: with a token present, install without names, or update with --all and
\* without names, sends exactly the keys of the manifest's
\* crossbuildui.dependencies section, each once; when the manifest is absent,
\* or is read without error and that section is empty, no request is sent and
\* the process exits with status 0.
C8_NamesFromManifest == []C8_Nothing /\ [][C8_RequestStep]_vars

\* update --all sent both tracked names.
C8_Witness ==
    /\ cmd.name = "update"
    /\ cmd.all
    /\ Len(requests) = 1
    /\ Len(requests[1].components) = 2
    /\ requests[1].components[1] = Card

-----------------------------------------------------------------------------

C9_State ==
    /\ requests # <<>> =>
          /\ TokenPresent
          /\ \A i \in DOMAIN requests : requests[i].bearer = tokenFile.token
    /\ ~TokenPresent =>
          /\ pc \in {"start", "exited"}
          /\ pc = "exited" => exitCode = "1"

C9_Frame ==
    ~TokenPresent =>
        UNCHANGED <<manifest, manifestOps, cbuiDir, dirs, requests,
                    downloadFile, tarScratch, tgz, scratch>>

\* C9: install and update send a request only if a token is present in the
\* credential store, and the request carries that token; with no token (no
\* file, an unreadable file, or an empty token) they exit with status 1
\* without touching the project.
C9_NoRequestWithoutToken == []C9_State /\ [][C9_Frame]_vars

\* A command that found a token file that is no JSON has ended.
C9_Witness ==
    /\ tokenFile = GarbageFile
    /\ cmd.name \in {"install", "update"}
    /\ pc = "exited"
    /\ exitCode = "1"
    /\ requests = <<>>

-----------------------------------------------------------------------------

\* C10: after a completed save(token), every read returns exactly that token
\* until the next save or clear.
C10_RoundTrip ==
    (credLog.op = "save" /\ lastRead # Unread) => lastRead = credLog.token

\* A second token was saved over the first, and read back.
C10_Witness ==
    /\ credLog.op = "save"
    /\ credLog.token = "tokB"
    /\ credLog.n = MaxOps
    /\ lastRead = "tokB"

-----------------------------------------------------------------------------

\* The last mutating operation of the credential store was a logout whose
\* removal of the token file did not fail.
Cleared == credLog.op = "clear"

C11_State ==
    Cleared =>
        /\ tokenFile.state = "absent"
        /\ lastRead \in {Unread, ""}

\* A logout that follows a logout leaves the store as it was.
C11_Step ==
    (Cleared /\ Cleared' /\ credLog'.n = credLog.n + 1)
        => tokenFile' = tokenFile

-----------------------------------------------------------------------------

\* The user was asked q and answered a.
Answered(q, a) == \E i \in DOMAIN prompts : prompts[i] = Asked(q, a)

WasAsked(q) == \E i \in DOMAIN prompts : prompts[i].q = q

\* C12: when init finds the directory and the user declines to overwrite
\* it, the directory is as it was, no template is fetched, no other question
\* is asked, and the process has ended with status 0.
C12_DeclineLeavesDirectory ==
    Answered("overwrite", FALSE) =>
        /\ projectDirectory = OldDir
        /\ fetches = <<>>
        /\ prompts = <<Asked("overwrite", FALSE)>>
        /\ pc = "exited"
        /\ exitCode = "0"
        /\ faults = 0

\* The user declined the overwrite when a template was asked for.
C12_Witness ==
    /\ Answered("overwrite", FALSE)
    /\ cliTemplateName = "cbui-free"
    /\ pc = "exited"
    /\ projectDirectory.old

-----------------------------------------------------------------------------

\* The names under which the default template is asked for; without the
\* option the default is fetched too.
DefaultNames == {"default", "Default"}

ExplicitOther == cliTemplateName \notin DefaultNames \cup {""}

FirstFetchFailed == Len(fetches) >= 1 /\ ~fetches[1].ok

C13_PromptExactly ==
    /\ WasAsked("proceedWithDefault") =>
          /\ FirstFetchFailed
          /\ ExplicitOther
          /\ fetches[1].template = cliTemplateName
    /\ (FirstFetchFailed /\ ExplicitOther) =>
          \/ pc = "initRetryPrompt"
          \/ WasAsked("proceedWithDefault")
    /\ \A i, j \in DOMAIN prompts :
          (prompts[i].q = "proceedWithDefault"
             /\ prompts[j].q = "proceedWithDefault") => i = j

C13_DefaultFatal ==
    \A i \in DOMAIN fetches :
        (~fetches[i].ok /\ fetches[i].template \in DefaultNames) =>
            /\ Len(fetches) = i
            /\ pc \in {"initFailed", "exited"}
            /\ pc = "exited" => exitCode = "1"

\* C13: init offers the retry with the default template exactly when the
\* fetch of an explicitly requested template other than the default has
\* failed, and once only; a failed fetch of the default template, first or as
\* the retry, is the last fetch and ends initialization with status 1.
C13_RetryWithDefault == C13_PromptExactly /\ C13_DefaultFatal

\* The retry with the default template failed too.
C13_Witness ==
    /\ Answered("proceedWithDefault", TRUE)
    /\ Len(fetches) = 2
    /\ fetches[1].template = "cbui-free"
    /\ fetches[2] = [template |-> "default", ok |-> FALSE]
    /\ pc = "exited"
    /\ exitCode = "1"

-----------------------------------------------------------------------------

\* A fetch failed or an I/O operation of init raised an error.
ErrorRaised == faults > 0 \/ \E i \in DOMAIN fetches : ~fetches[i].ok

\* C20 as stated, for an init that has ended: after any error the exit status
\* is 1, and the directory is still there only if its removal was offered.
C20_EveryErrorFails ==
    (pc = "exited" /\ ErrorRaised) =>
        /\ exitCode = "1"
        /\ projectDirectory.exists => WasAsked("confirmCleanup")

\* The only error was the failed fetch of a template other than the default,
\* answered by the retry prompt.
OnlyRetriedFetch ==
    /\ faults = 0
    /\ FirstFetchFailed
    /\ WasAsked("proceedWithDefault")
    /\ \A i \in DOMAIN fetches : i > 1 => fetches[i].ok

\* The error was raised by the removal of the existing directory, before
\* the try block was entered.
OverwriteFailed ==
    /\ Answered("overwrite", TRUE)
    /\ faults > 0
    /\ fetches = <<>>
    /\ "error during initialization" \notin out

\* C20: an error of init exits with status 1, unless it is the failed fetch
\* of a template other than the default that the retry prompt takes up; and
\* but for a failed removal of the existing directory on overwrite, the
\* removal of the project directory is offered whenever the directory exists
\* at that point.
C20_ErrorsFail ==
    (pc = "exited" /\ ErrorRaised /\ ~OnlyRetriedFetch) =>
        /\ exitCode = "1"
        /\ (projectDirectory.exists /\ ~OverwriteFailed)
               => WasAsked("confirmCleanup")
        /\ OverwriteFailed => ~WasAsked("confirmCleanup")

\* package.json of the template could not be rewritten; the user kept the
\* directory.
C20_Witness ==
    /\ pc = "exited"
    /\ exitCode = "1"
    /\ faults = 1
    /\ Len(fetches) = 1
    /\ fetches[1].ok
    /\ Answered("confirmCleanup", FALSE)
    /\ projectDirectory.exists

-----------------------------------------------------------------------------

IsLetter(c) == c \in {"a", "A"}

IsDigit(c) == c = "1"

\* ^[A-Za-z][A-Za-z0-9+.]*$
MatchesScheme(q) ==
    /\ q # <<>>
    /\ IsLetter(q[1])
    /\ \A i \in DOMAIN q : IsLetter(q[i]) \/ IsDigit(q[i]) \/ q[i] \in {"+", "."}

Contains(q, c) == \E i \in DOMAIN q : q[i] = c

\* C15 as stated: the default scheme computed from any project name matches
\* ^[A-Za-z][A-Za-z0-9+.]*$.
C15_SchemeAlwaysMatches == pc = "slugified" => MatchesScheme(scheme)

\* C15: the default scheme computed from any name holds no hyphen, and only
\* lower-case letters, digits and underscores; it matches
\* ^[A-Za-z][A-Za-z0-9+.]*$ when the name begins with a letter and holds no
\* underscore.
C15_SchemeNoHyphen ==
    pc = "slugified" =>
        /\ ~Contains(scheme, "-")
        /\ \A i \in DOMAIN scheme : scheme[i] \in {"a", "1", "_"}
        /\ (str # <<>> /\ IsLetter(str[1]) /\ ~Contains(str, "_"))
               => MatchesScheme(scheme)

\* A name with two hyphens apart: both are gone from the scheme.
C15_Witness ==
    /\ pc = "slugified"
    /\ str = <<"-", "A", "-">>
    /\ slug = <<"-", "a", "-">>
    /\ scheme = <<"a">>

-----------------------------------------------------------------------------

\* C16: slugify is idempotent: the slug of a slug is that slug.
C16_SlugIdempotent == pc = "slugified" => Slugify(slug) = slug

\* Hyphens that only the removal of a character brought together were
\* collapsed.
C16_Witness ==
    /\ pc = "slugified"
    /\ str = <<"-", "!", "-">>
    /\ slug = <<"-">>
    /\ Slugify(slug) = slug

-----------------------------------------------------------------------------

Responded(j, status) ==
    httpLog[j].ev = "response" /\ httpLog[j].value = status

SavedTokens == {httpLog[i].value : i \in {k \in DOMAIN httpLog : httpLog[k].ev = "saved"}}

C14_State ==
    /\ \A j \in DOMAIN httpLog :
          /\ Responded(j, "200") =>
                /\ httpLog[j].path = "/cli-auth-callback"
                /\ \E i \in 1..(j - 1) :
                      httpLog[i].ev = "saved" /\ httpLog[i].id = httpLog[j].id
          /\ httpLog[j].ev = "response" =>
                (httpLog[j].path # "/cli-auth-callback" <=> Responded(j, "404"))
    /\ (\E j \in DOMAIN httpLog : Responded(j, "200")) =>
          server.state \in {"closing", "closed"}
    /\ server.state = "closed" =>
          /\ pc = "exited"
          /\ login \in {"resolved", "rejected"}
          /\ (\A j \in DOMAIN httpLog : ~Responded(j, "400")) =>
                (login = "resolved" /\ exitCode = "0")

\* The step wrote a response with this status.
Responds(status) ==
    /\ Len(httpLog') = Len(httpLog) + 1
    /\ httpLog'[Len(httpLog')].ev = "response"
    /\ httpLog'[Len(httpLog')].value = status

C14_Step ==
        /\ Responds("200") =>
              /\ tokenFile.state = "json"
              /\ tokenFile.token \in SavedTokens
              /\ tokenFile' = tokenFile
              /\ server'.state # "listening"
        /\ Responds("404") =>
              /\ UNCHANGED <<tokenFile, login, pc, exitCode>>
              /\ server.state = "listening"
              /\ server'.state = "listening"
              /\ server'.handling = server.handling

\* C14: the confirmation page answers a callback request only after that
\* request's token was written to the credential store, and from then on the
\* listener accepts nothing; once it has closed, login has ended, with
\* success unless a callback without a token closed it first.  A request for
\* another path is answered 404 and changes neither the listener nor the
\* credential store.
C14_CallbackPersistsThenCloses == []C14_State /\ [][C14_Step]_vars

\* After a request for another path, a callback's token was saved and
\* confirmed, and login succeeded.
C14_Witness ==
    /\ Len(httpLog) = 3
    /\ Responded(1, "404")
    /\ httpLog[2] = Event("saved", 2, "/cli-auth-callback", "tokB")
    /\ Responded(3, "200")
    /\ tokenFile.token = "tokB"
    /\ server.state = "closed"
    /\ login = "resolved"
    /\ exitCode = "0"

-----------------------------------------------------------------------------

\* The batch ended with status 0 and package.json is there.
EndedWithManifest == pc = "exited" /\ exitCode = "0" /\ manifest.exists

\* C17 as stated, for a batch in which no archive was skipped: every
\* component whose name and version were read is in the tracked section with
\* that version, whatever became of its extraction.
C17_ResolvedAllRecorded ==
    (EndedWithManifest /\ manifest.valid /\ "skipping" \notin out) =>
        \A i \in DOMAIN items :
            WellFormedArchive(items[i]) =>
                Get(manifest.crossbuildui, items[i].name) = items[i].version

C17_State ==
    EndedWithManifest =>
        /\ installedPackagesInfo # <<>> =>
              /\ manifest.valid
              /\ "package.json updated" \in out
        /\ installedPackagesInfo = <<>> => "package.json updated" \notin out
        /\ \A k \in DOMAIN installedPackagesInfo :
              IsLastOfName(k) =>
                  manifest.crossbuildui[installedPackagesInfo[k].name]
                      = installedPackagesInfo[k].version

\* A component joins the batch's record only after its extraction and
\* payload copy, and a component whose extraction or copy failed goes
\* straight to its cleanup.
C17_Step ==
    /\ installedPackagesInfo' # installedPackagesInfo =>
          /\ pc = "compMerge"
          /\ ~compErr
          /\ installedPackagesInfo' = Append(installedPackagesInfo, packageInfo)
    /\ (pc = "compExtract" /\ compErr') =>
          (pc' = "compCleanup" /\ UNCHANGED installedPackagesInfo)
    /\ pc = "compCleanup" => pc' \in {"loop", "update"}

\* C17: when the batch has ended, the tracked-components section was updated
\* if and only if at least one component got through its extraction and
\* payload copy without an error, and it holds the {name, version} pair of
\* every such component, also of one without a payload directory or whose
\* dependency merge failed; a component whose extraction or copy failed is
\* not recorded.
C17_RecordsExtracted == []C17_State /\ [][C17_Step]_vars

\* Of two components the second could not be extracted: only the first is
\* tracked.
C17_Witness ==
    /\ EndedWithManifest
    /\ mode = "tar"
    /\ items = <<ButtonTgz, CardTgz>>
    /\ "failed to install" \in out
    /\ Len(installedPackagesInfo) = 1
    /\ manifest.crossbuildui[Button] = "1.0.0"
    /\ Get(manifest.crossbuildui, Card) # "2.0.0"

-----------------------------------------------------------------------------

\* After the step, the archive of the component it worked on is still on
\* disk: a container's entries go with the container's scratch directory.
ArchiveLeft == idx \in tgz' /\ (mode = "tar" => tarScratch')

\* C18: whenever the processing of a component archive ends, be it skipped,
\* installed or failed, its scratch directories and the archive itself are
\* gone.
C18_ComponentCleanedUp ==
    [][(/\ pc \in {"compInfo", "compDest", "compExtract", "compMerge",
                   "compCleanup"}
        /\ pc' \in {"loop", "update", "exited"})
          => (scratch' = {} /\ ~ArchiveLeft)]_vars

-----------------------------------------------------------------------------

\* How the content type alone would have the download handled.
ByContentType(ct) ==
    IF ct = "application/gzip" THEN "single"
    ELSE IF ct = "application/x-tar" THEN "tar"
    ELSE "none"

\* C19 as stated: the content type alone decides how the download is
\* handled.
C19_ContentTypeAlone ==
    [][pc = "dispatch" => mode' = ByContentType(response.contentType)]_vars

TgzName == response.ext \in {".tgz", ".tar.gz"}

C19_DispatchStep ==
    pc = "dispatch" =>
        /\ response.contentType = "" =>
              (mode' = "none" /\ pc' = "update" /\ UNCHANGED <<items, dirs>>)
        /\ (response.contentType # "" /\ TgzName) => mode' = "single"
        /\ (response.contentType # "" /\ ~TgzName) =>
              mode' = ByContentType(response.contentType)
        /\ mode' = "single" => (Len(items') = 1 /\ pc' = "compInfo")
        /\ (mode' = "tar" /\ pc' # "exited") =>
              (items' = ItemsInTar /\ pc' = "loop")

\* C19: a download without a content type installs nothing, whatever its
\* file name.  One with a content type is handled as exactly one component
\* archive if the type is that of a compressed tarball or the file name ends
\* in .tgz or .tar.gz, whatever the type; otherwise as a container if the
\* type is that of a plain tarball; otherwise nothing is installed.
C19_TypeAndName == [][C19_DispatchStep]_vars

\* A download declared a plain tarball and named .tgz was handled as one
\* component archive.
C19_Witness ==
    /\ response.contentType = "application/x-tar"
    /\ response.ext = ".tgz"
    /\ mode = "single"
    /\ Len(items) = 1
    /\ pc = "exited"

-----------------------------------------------------------------------------

\* The archive being processed has no package/dist directory.
NoPayload == items[idx].dist = ""

\* The warning is issued and the destination folder left empty; the
\* component then joins the batch's record with the name and version read
\* from its archive, exactly as one with a payload does.
C21_Step ==
    /\ (pc = "compExtract" /\ NoPayload /\ ~compErr') =>
          /\ "dist not found" \in out'
          /\ "installed" \in out' => "installed" \in out
          /\ dirs'[FolderName(packageInfo.name)] = ""
          /\ pc' = "compMerge"
    /\ pc = "compMerge" =>
          /\ Len(installedPackagesInfo') = Len(installedPackagesInfo) + 1
          /\ LET pkg == installedPackagesInfo'[Len(installedPackagesInfo')] IN
                /\ pkg.name = items[idx].name
                /\ pkg.version = items[idx].version

\* When package.json was updated, every component of the batch's record is
\* in the tracked section, whether it had a payload or not.
C21_State ==
    (pc = "exited" /\ "package.json updated" \in out) =>
        \A k \in DOMAIN installedPackagesInfo :
            IsLastOfName(k) =>
                Get(manifest.crossbuildui, installedPackagesInfo[k].name)
                    = installedPackagesInfo[k].version

\* C21: a component whose archive has no package/dist directory gets a
\* warning, its emptied destination folder stays empty, and it is recorded
\* in the batch and written to the tracked-components section like a
\* component whose payload was copied.
C21_NoPayloadRecorded == []C21_State /\ [][C21_Step]_vars

\* A component without a payload directory was processed: warned about,
\* its folder empty, and tracked with its version.
C21_Witness ==
    /\ pc = "exited"
    /\ exitCode = "0"
    /\ "dist not found" \in out
    /\ "package.json updated" \in out
    /\ items = <<AltButtonTgz>>
    /\ dirs["button"] = ""
    /\ manifest.crossbuildui[AltButton] = "2.0.0"

-----------------------------------------------------------------------------

\* p lies below the working directory
BelowCwd(p) == Len(p) > Len(Cwd) /\ IsPrefix(Cwd, p)

\* C27: every directory that init removes, on overwrite, on a declined retry
\* or on cleanup, lies strictly below the working directory; the working
\* directory itself is never removed.
C27_RemovesOnlyBelowCwd == \A p \in removed : BelowCwd(p)

-----------------------------------------------------------------------------

\* C22: a path that one running invocation has made and not yet removed,
\* be it its downloaded archive or one of its scratch locations, is never
\* read, written or removed by the other invocation.
C22_NoSharedPaths ==
    \A a \in access :
        \A q \in Invocations \ {a.by} :
            inv[q].pc # "done" => a.path \notin inv[q].paths

-----------------------------------------------------------------------------

\* The positions from the start of a component's manifest read to the end
\* of its cleanup.
ComponentSteps ==
    {"compInfo", "compDest", "compExtract", "compMerge", "compCleanup"}

\* While a container's entries are processed, the archives before the
\* current entry are consumed and those from it on are untouched; scratch
\* directories exist only while a component is being processed.
C23_State ==
    /\ scratch # {} => pc \in ComponentSteps
    /\ (mode = "tar" /\ pc \in ComponentSteps \cup {"loop"}) =>
          \A j \in DOMAIN items :
              items[j].tgz => (j \in tgz <=> j >= idx)

\* The processing of a component starts from the dispatch or from the loop
\* only, with no scratch directory and no pending error left, and the loop
\* moves on by one entry, after the cleanup or the skip of the current one.
C23_Step ==
    /\ (pc' = "compInfo" /\ pc # "compInfo") =>
          /\ pc \in {"dispatch", "loop"}
          /\ scratch = {} /\ ~compErr
    /\ idx' # idx =>
          \/ pc = "dispatch" /\ idx' = 1
          \/ /\ idx' = idx + 1
             /\ pc \in {"loop", "compInfo", "compCleanup"}
             /\ pc' = "loop"
             /\ scratch' = {} /\ ~compErr'
             /\ idx \notin tgz'

\* C23: the components of a batch are processed one after another: at most
\* one is between the start of its manifest read and the end of its cleanup,
\* and the next one starts only when the processing and the cleanup of the
\* one before have ended.
C23_OneAfterAnother == []C23_State /\ [][C23_Step]_vars

\* The second component of a container starts: the first one's archive is
\* consumed and it is recorded, the second one's is untouched.
C23_Witness ==
    /\ mode = "tar"
    /\ pc = "compInfo"
    /\ idx = 2
    /\ tgz = {2}
    /\ scratch = {}
    /\ Len(installedPackagesInfo) = 1

-----------------------------------------------------------------------------

\* downloadPackage ran to its end.
Completed == pc = "exited" /\ exitCode = "0" /\ response.status = 200

\* A component of the batch's record has dependencies or peer dependencies.
SomeDeclared ==
    \E k \in DOMAIN installedPackagesInfo :
        \/ DOMAIN installedPackagesInfo[k].dependencies # {}
        \/ DOMAIN installedPackagesInfo[k].peerDependencies # {}

\* C24 as stated: a completed invocation asks for the package-manager
\* install if a recorded component has dependencies, and reports plain
\* success in every other case.
C24_NoticeOrSuccess ==
    Completed =>
        IF SomeDeclared
        THEN "run npm install" \in out /\ "processed successfully" \notin out
        ELSE "processed successfully" \in out /\ "run npm install" \notin out

EndMessages ==
    {"run npm install", "processed successfully", "no components installed"}

C24_State ==
    /\ Completed =>
          out \cap EndMessages =
              (IF installedPackagesInfo = <<>>
               THEN {"no components installed"}
               ELSE IF SomeDeclared THEN {"run npm install"}
               ELSE {"processed successfully"})
    /\ ~Completed => out \cap EndMessages = {}

\* A change of the ordinary dependency section, other than by a write that
\* failed, is made for a component that declares dependencies, which is
\* recorded.
C24_Step ==
    (manifest'.valid /\ manifest'.dependencies # manifest.dependencies) =>
        /\ pc = "compMerge"
        /\ hasPeerDependencies'
        /\ (\/ DOMAIN packageInfo.dependencies # {}
            \/ DOMAIN packageInfo.peerDependencies # {})
        /\ installedPackagesInfo' = Append(installedPackagesInfo, packageInfo)

\* C24: an invocation that runs to its end reports exactly one of three
\* things: that no component was installed, if none was recorded; that a
\* package-manager install is required, if a recorded component has
\* dependencies or peer dependencies, which is the case whenever the
\* dependency section was changed; plain success otherwise.
C24_EndReport == []C24_State /\ [][C24_Step]_vars

\* A component with dependencies that package.json already had was
\* installed: nothing was added, and the install step is asked for.
C24_Witness ==
    /\ Completed
    /\ "run npm install" \in out
    /\ "write" \in manifestOps
    /\ items = <<CardTgz>>
    /\ manifest.dependencies = [x \in {"react"} |-> "1.0.0"]

-----------------------------------------------------------------------------

\* C25: the destination folder that a component is about to be placed in,
\* and that is emptied for it, is not the folder of a component with another
\* name installed earlier in the batch.
C25_FoldersDistinct ==
    pc = "compDest" =>
        \A k \in DOMAIN installedPackagesInfo :
            installedPackagesInfo[k].name # packageInfo.name =>
                FolderName(installedPackagesInfo[k].name)
                    # FolderName(packageInfo.name)

-----------------------------------------------------------------------------

\* The batch's record was written to package.json or printed for manual
\* addition, and the invocation ended.
RecordPublished ==
    /\ pc = "exited"
    /\ exitCode = "0"
    /\ "package.json updated" \in out \/ "add manually" \in out

\* C26: when the invocation has ended, every component that was recorded in
\* the tracked-components section, or printed for manual addition, has its
\* destination folder; one whose folder was removed after a failure is not
\* recorded.
C26_RecordedHasFolder ==
    RecordPublished =>
        \A k \in DOMAIN installedPackagesInfo :
            FolderName(installedPackagesInfo[k].name) \in DOMAIN dirs

====
